---- MODULE Spec2Model ----
(***************************************************************************)
(* Batch transfer engine of discord-object-store: the upload / resume /     *)
(* download workflows (src/src/uploader.py, src/src/downloader.py), the     *)
(* chunk transport (src/src/discord_client.py), the local index             *)
(* (src/src/database.py) and the synchronizer (src/src/syncer.py).          *)
(*                                                                         *)
(* The remote host is the environment: a send, a fetch or a database call   *)
(* may fail, which the actions draw with \E.  One command runs at a time    *)
(* (each CLI command is its own process); inside a command the chunk        *)
(* workers of upload_chunks_concurrent interleave.                          *)
(***************************************************************************)
EXTENDS Integers, Sequences, FiniteSets, TLC

\* ------------------------------------------------------------------ bounds
BatchIds == {"b1", "b2"}          \* batch ids generate_batch_id may return
ThreadIds == BatchIds             \* the thread of batch b is named b
MaxChunks == 2                    \* most chunks split_file yields for a batch
MaxCopies == 2                    \* most attachments of one part in a thread
MaxPlainCards == 2                \* cards in the index channel not posted by upload()
ConcurrentUploads == 2            \* config.concurrent_uploads (max_concurrency)
MaxOps == 2                       \* commands started in one behaviour
MaxRetryAfter == 2                \* longest retry_after of a RateLimited response
MaxBotFiles == 2                  \* .bin files the upload folder can hold
BotConcurrentUploads == 1         \* MAX_CONCURRENT_UPLOADS of the bot, scaled down
MaxBotCommands == 3               \* !upload, !resume and !download commands in one behaviour
MaxParts == 3                     \* most chunk paths handed to upload_chunks_concurrent
MaxConcurrency == 2               \* largest max_concurrency of a transfer
MaxBytes == 3                     \* longest input byte sequence
MaxChunkSize == 3                 \* largest chunk size, in bytes
MaxWholeChunks == 2      \* a file to split holds at most this many chunks of the cap's size
MaxBufferSize == 2                \* largest IO_BUFFER_SIZE, in bytes
Retries == 3                      \* upload_chunk(..., retries: int = 3)
MaxCallers == 7                   \* threads that call get_connection
GetTimeout == 2                   \* ticks of the clock in queue.get(timeout=30)
maxsize == 5                      \* ConnectionPool(db_path, maxsize: int = 5)
MaxCardChunks == 3                \* most chunk files of one !upload with a progress card
MaxClock == 27                    \* largest reading of time.monotonic(), in tenths of a second
ARCHIVE_CARD_UPDATE_RATE_LIMIT == 12   \* 1.2 seconds, in tenths of a second
MaxUploads == 2                   \* !upload commands in one behaviour
MaxManifests == 2                 \* manifest files in one chunks folder
MaxSaves == 3                     \* calls of save_manifest in one behaviour
MaxSuffix == 2                    \* largest numeric suffix of a file found in the output directory
MaxInstant == 3                   \* datetime.now() returns an instant in 0 .. MaxInstant
InstantsPerSecond == 2            \* instants that strftime("%H%M%S") prints alike

Indexes == 0 .. (MaxChunks - 1)

VARIABLES
    lg,             \* the log file of the bot, the cards of the archive channel and the commands that run at once
    pg,             \* the progress state of one !upload: chunk workers, lists, lock, clock, card edits
    asm,            \* one chunks folder through assemble_from_manifest: manifests, chunk files, restored files
    pool,           \* the connection pool of one database path and the threads calling get_connection
    mf,             \* the manifest files of one output directory, by name
    dc,             \* one ciphertext decrypted intact, under another key, tampered and truncated
    sp,             \* one file through split_file or slice_folder, by sizes in bytes
    rt,             \* one byte sequence through slicing or upload preparation and back
    xfer,           \* one batch through upload_chunks_concurrent and download_chunks_concurrent
    bot,            \* the bot: upload folder, log entry, archive card, thread, running command
    first,          \* rows a finished rebuild left (sync determinism)
    batches,        \* table batches: set of rows, batch_id is the primary key
    chunks,         \* table chunks: set of rows, chunk_id is the primary key
    files,          \* table files: set of rows, file_id is the primary key
    threads,        \* remote threads: state, META message (its chunk_count,
                    \* 0: none), number of attachments per part index
    index_channel,  \* remote index channel history, oldest first
    plain_posted,   \* number of cards the environment has posted
    temp,           \* temp_<batch_id>: number of .partN files (0: no directory)
    op,             \* the running command and its position
    workers,        \* the _upload tasks of upload_chunks_concurrent, per index
    results,        \* results list of upload_chunks_concurrent: index -> copy sent
    sync,           \* sync_from_discord: history position, attachments to record
    dl,             \* download(): fetched chunk files, merged stream, outcome
    uc,             \* one upload_chunk call: its loop variables and outcome
    ops             \* number of commands started that write (upload, resume, sync, delete)

vars == <<lg, pg, asm, pool, mf, dc, sp, rt, xfer, bot, first, batches, chunks, files, threads, index_channel, plain_posted, temp,
          op, workers, results, sync, dl, uc, ops>>

\* ------------------------------------------------------------ data values
\* The bytes of part i of the encrypted stream of the batch stored in thread t.
Data(t, i) == [thread |-> t, index |-> i, intact |-> TRUE]
\* Bytes that differ from what was uploaded.
Corrupt(t, i) == [thread |-> t, index |-> i, intact |-> FALSE]
\* hashlib.sha256(...).hexdigest(): injective on the data of the model.
Sha256(d) == [digest_of |-> d]
\* The empty string stored as file_hash: the digest of no data.
EmptyHash == [digest_of |-> [thread |-> "", index |-> 0, intact |-> FALSE]]

\* An attachment of a thread: the copy-th message carrying part i.
Locator(t, i, c) == [thread |-> t, index |-> i, copy |-> c]

NoThread == [state |-> "none", meta |-> 0, att |-> [i \in Indexes |-> 0]]
Idle == [kind |-> "idle", batch |-> "", thread |-> "", pc |-> "", next |-> 0]
\* The bot's side: file names in the upload folder, the log entry and the
\* archive card of one archive, its thread, the channel the command came from.
BotFiles == 1 .. MaxBotFiles
NoEntry == [status |-> "none", uploaded_files |-> {}, failed_files |-> {},
            thread_id |-> FALSE, files |-> {}]
NoRun == [todo |-> {}, flying |-> {}, uploaded_files |-> {}, failed_files |-> {},
          missing |-> {}, target |-> "", card_found |-> FALSE, status |-> ""]
Parts == 0 .. (MaxParts - 1)
NoTransfer == [phase |-> "idle", n |-> 0, max_concurrency |-> 0,
               task |-> [i \in Parts |-> "none"], results |-> <<>>,
               uploaded |-> <<>>, rows |-> {}, error |-> "", merged |-> <<>>]
NoRoundTrip == [kind |-> "", stage |-> "", original |-> <<>>, chunk_size |-> 0,
                buffer_size |-> 0, parts |-> <<>>, restored |-> <<>>, error |-> ""]
NoSplit == [kind |-> "none", pc |-> "none", total |-> 0, chunk_size |-> 0,
            reads |-> <<>>, sizes |-> <<>>, warned |-> FALSE, error |-> ""]
Cases == {"intact", "wrong key", "tampered", "truncated"}
Pending == [pc |-> "pending", error |-> "", bytes |-> <<>>]
NoDecrypt == [kind |-> "none", original |-> <<>>, buffer_size |-> 0, ciphertext |-> <<>>,
              outcome |-> [c \in Cases |-> Pending]]
Callers == 1 .. MaxCallers
NoPool == [pc |-> [c \in Callers |-> "idle"], waited |-> [c \in Callers |-> 0],
           queue |-> 0, active_count |-> 0, open |-> 0, count_lock |-> 0,
           get_waited |-> 0]
NoName == [total_chunks |-> 0, time_part |-> 0, suffix |-> 0]
NoManifests == [dir |-> {}, saves |-> 0, total_chunks |-> 0, now |-> 0, path |-> NoName]
NoAssemble == [pc |-> "none", manifests |-> {}, store |-> <<>>, password |-> FALSE,
               todo |-> <<>>, output |-> {}, had_errors |-> FALSE, failed |-> FALSE,
               mismatch |-> FALSE, folder |-> FALSE]
CardChunks == 1 .. MaxCardChunks
NoProgress == [pc |-> "none", chunk_count |-> 0, w |-> [f \in CardChunks |-> "none"],
               upload_lock |-> 0, uploaded_files |-> <<>>, failed_files |-> <<>>,
               completed_count |-> 0, last_edit |-> 0, now |-> 0, clock |-> 0,
               calls |-> 0, edits |-> 0, edit_at |-> 0 - 1, gap |-> 0]
Uploads == 1 .. MaxUploads
NoUpload == [pc |-> "none", lot |-> 0, archive_id |-> <<>>, card |-> 0]
NoResume == [pc |-> "none", logs |-> <<>>, target_index |-> 0]
NoLog == [logs |-> <<>>, cards |-> <<>>, up |-> [u \in Uploads |-> NoUpload],
          resume |-> NoResume, cleaned |-> {}]
NoFetch == [todo |-> {}, success |-> {}, failed |-> {}, skipped |-> {}]
NoBot == [pc |-> "idle", commands |-> 0, folder |-> {}, entry |-> NoEntry, card |-> NoEntry,
          thread |-> "none", posts |-> {}, channel_posts |-> {}, run |-> NoRun,
          lot_dir |-> {}, saved_before |-> {}, fetch |-> NoFetch]
NoSnapshot == [taken |-> FALSE, batches |-> {}, chunks |-> {}]
NoSync == [reset |-> FALSE, pos |-> 0, todo |-> <<>>, batch |-> "", thread |-> "",
           synced |-> 0, error |-> ""]
NoDownload == [fetched |-> <<>>, merged |-> <<>>, error |-> "", restored |-> "none"]
NoCall == [thread |-> "", index |-> 0, attempt |-> 0, delay |-> 0, http |-> 0,
           limited |-> 0, slept |-> 0, unexpected |-> FALSE, st |-> "none"]

\* asyncio.Semaphore(value): `async with semaphore` proceeds only while fewer
\* than value holders are inside.
SemaphoreAlwaysFree(value, held) == TRUE

SemaphoreFree(value, held) == held < value

\* ------------------------------------------------------------- database
\* SELECT * FROM batches WHERE batch_id = ?
get_batch(b) == {r \in batches : r.batch_id = b}

\* SELECT * FROM chunks WHERE batch_id = ? ORDER BY chunk_index
get_chunks(b) == {r \in chunks : r.batch_id = b}

\* INSERT INTO batches: fails on a duplicate primary key.
create_batch_ok(row) == get_batch(row.batch_id) = {}

create_batch(row) == batches \cup {row}

\* INSERT INTO chunks: fails on a duplicate chunk_id or a missing batch row
\* (PRAGMA foreign_keys=ON).
add_chunk_ok(row) ==
    /\ \A r \in chunks : r.chunk_id # row.chunk_id
    /\ get_batch(row.batch_id) # {}

add_chunk(row) == chunks \cup {row}

\* UPDATE batches SET status = ? WHERE batch_id = ?
update_batch_status(b, status) ==
    {IF r.batch_id = b THEN [r EXCEPT !.status = status] ELSE r : r \in batches}

\* DELETE FROM batches WHERE batch_id = ?  (ON DELETE CASCADE on chunks, files)
delete_batch_rows(b) == {r \in batches : r.batch_id # b}

delete_no_cascade(table, b) == table

delete_cascade(table, b) == {r \in table : r.batch_id # b}

ChunkRow(t, b, i, c, h) ==
    [chunk_id |-> <<t, i>>, batch_id |-> b, chunk_index |-> i,
     discord_message_id |-> Locator(t, i, c),
     discord_attachment_url |-> Locator(t, i, c), file_hash |-> h]

\* --------------------------------------------------------------- Init
Init ==
    /\ batches = {}
    /\ chunks = {}
    /\ files = {}
    /\ threads = [t \in ThreadIds |-> NoThread]
    /\ index_channel = <<>>
    /\ plain_posted = 0
    /\ temp = [b \in BatchIds |-> 0]
    /\ op = Idle
    /\ workers = [i \in Indexes |-> "none"]
    /\ results = [i \in Indexes |-> 0]
    /\ sync = NoSync
    /\ dl = NoDownload
    /\ uc = NoCall
    /\ ops = 0
    /\ first = NoSnapshot
    /\ bot = NoBot
    /\ xfer = NoTransfer
    /\ rt = NoRoundTrip
    /\ sp = NoSplit
    /\ dc = NoDecrypt
    /\ mf = NoManifests
    /\ pool = NoPool
    /\ asm = NoAssemble
    /\ pg = NoProgress
    /\ lg = NoLog

\* ------------------------------------------------------------ remote host
\* create_archive_card: the text posted to the index channel.  id_sep is the
\* text between "Batch ID:" and the opening backtick, thread_label the label
\* of the thread line ("**Batch ID:** `..`" and "**Thread:** `..`").
create_archive_card(b, t, n) ==
    [mid |-> [kind |-> "card", n |-> 0, of |-> b],
     id_sep |-> "** ", thread_label |-> "Thread:", thread_sep |-> "** ",
     batch_id |-> b, thread_id |-> t, chunk_count |-> n]

\* thread.send(file=...): one more attachment of part i in thread t.
send_file(t, i) ==
    [threads EXCEPT ![t].att[i] = @ + 1]

InFlight == {i \in Indexes : workers[i] = "inflight"}

\* ------------------------------------------------------------- upload()
\* upload() from the point where `prepared` holds n part files under
\* temp_<batch_id>: what the rest of upload() does with them.  The
\* preparation itself, and what it returns, is PrepareChunks.
UploadPrepare(b, n) ==
    /\ ops < MaxOps
    /\ ops' = ops + 1
    /\ op = Idle
    /\ temp[b] = 0
    /\ threads[b].state = "none"
    /\ get_batch(b) = {}
    /\ temp' = [temp EXCEPT ![b] = n]
    /\ op' = [kind |-> "upload", batch |-> b, thread |-> b, pc |-> "thread", next |-> 0]
    /\ UNCHANGED <<lg, pg, asm, pool, mf, dc, sp, rt, xfer, bot, first, batches, chunks, files, threads, index_channel, plain_posted,
                   workers, results, sync, dl, uc>>

\* except Exception: update_batch_status(batch_id, "failed"); then client.close().
UploadExcept ==
    /\ batches' = update_batch_status(op.batch, "failed")
    /\ op' = [op EXCEPT !.pc = "closing"]

\* storage_channel.send(...) and create_thread(...).
UploadCreateThread(ok) ==
    /\ op.kind = "upload" /\ op.pc = "thread"
    /\ IF ok
       THEN /\ threads' = [threads EXCEPT ![op.thread].state = "live"]
            /\ op' = [op EXCEPT !.pc = "card"]
            /\ UNCHANGED batches
       ELSE /\ UploadExcept
            /\ UNCHANGED threads
    /\ UNCHANGED <<lg, pg, asm, pool, mf, dc, sp, rt, xfer, bot, first, chunks, files, index_channel, plain_posted, temp,
                   workers, results, sync, dl, uc, ops>>

\* create_archive_card(index_channel, {...}).
UploadPostCard(ok) ==
    /\ op.kind = "upload" /\ op.pc = "card"
    /\ IF ok
       THEN /\ index_channel' =
                 Append(index_channel,
                        create_archive_card(op.batch, op.thread, temp[op.batch]))
            /\ op' = [op EXCEPT !.pc = "batch"]
            /\ UNCHANGED batches
       ELSE /\ UploadExcept
            /\ UNCHANGED index_channel
    /\ UNCHANGED <<lg, pg, asm, pool, mf, dc, sp, rt, xfer, bot, first, chunks, files, threads, plain_posted, temp,
                   workers, results, sync, dl, uc, ops>>

batch_metadata_complete(b, t, n) ==
    [batch_id |-> b, chunk_count |-> n,
     status |-> "complete", encryption_salt |-> "salt",
     archive_message_id |-> [kind |-> "card", n |-> 0, of |-> b],
     thread_id |-> t]

\* batch_metadata = {"batch_id": batch_id, ..., "status": "uploading", ...}
batch_metadata(b, t, n) ==
    [batch_id |-> b, chunk_count |-> n,
     status |-> "uploading", encryption_salt |-> "salt",
     archive_message_id |-> [kind |-> "card", n |-> 0, of |-> b],
     thread_id |-> t]

\* create_batch(batch_metadata) with status "uploading".
UploadCreateBatch(dbok) ==
    /\ op.kind = "upload" /\ op.pc = "batch"
    /\ LET row == batch_metadata(op.batch, op.thread, temp[op.batch])
       IN IF dbok /\ create_batch_ok(row)
          THEN /\ batches' = create_batch(row)
               /\ op' = [op EXCEPT !.pc = "meta"]
          ELSE UploadExcept
    /\ UNCHANGED <<lg, pg, asm, pool, mf, dc, sp, rt, xfer, bot, first, chunks, files, threads, index_channel, plain_posted, temp,
                   workers, results, sync, dl, uc, ops>>

\* thread.send("META:..."), add_file(...) per file, then the _upload tasks
\* of upload_chunks_concurrent are created, one per chunk path.
UploadSendMeta(ok) ==
    /\ op.kind = "upload" /\ op.pc = "meta"
    /\ IF ok
       THEN /\ threads' = [threads EXCEPT ![op.thread].meta = temp[op.batch]]
            /\ files' = files \cup {[file_id |-> <<op.batch, 0>>, batch_id |-> op.batch]}
            /\ workers' = [i \in Indexes |->
                              IF i < temp[op.batch] THEN "pending" ELSE "none"]
            /\ results' = [i \in Indexes |-> 0]
            /\ op' = [op EXCEPT !.pc = "sending"]
            /\ UNCHANGED batches
       ELSE /\ UploadExcept
            /\ UNCHANGED <<threads, files, workers, results>>
    /\ UNCHANGED <<lg, pg, asm, pool, mf, dc, sp, rt, xfer, bot, first, chunks, index_channel, plain_posted, temp, sync, dl, uc, ops>>

\* _upload: async with semaphore.
WorkerAcquire(i) ==
    /\ op.kind \in {"upload", "resume"}
    /\ op.pc \in {"sending", "closing"}
    /\ workers[i] = "pending"
    /\ SemaphoreFree(ConcurrentUploads, Cardinality(InFlight))
    /\ workers' = [workers EXCEPT ![i] = "inflight"]
    /\ UNCHANGED <<lg, pg, asm, pool, mf, dc, sp, rt, xfer, bot, first, batches, chunks, files, threads, index_channel, plain_posted,
                   temp, op, results, sync, dl, uc, ops>>

\* _upload: metadata = await upload_chunk(...); results.append(metadata).
\* upload_chunk returns once a send succeeded, or raises UploadError.
WorkerFinish(i, ok) ==
    /\ op.kind \in {"upload", "resume"}
    /\ op.pc \in {"sending", "closing"}
    /\ workers[i] = "inflight"
    /\ IF ok
       THEN /\ threads[op.thread].att[i] < MaxCopies
            /\ threads' = send_file(op.thread, i)
            /\ results' = [results EXCEPT ![i] = threads[op.thread].att[i] + 1]
            /\ workers' = [workers EXCEPT ![i] = "done"]
       ELSE /\ workers' = [workers EXCEPT ![i] = "failed"]
            /\ UNCHANGED <<threads, results>>
    /\ UNCHANGED <<lg, pg, asm, pool, mf, dc, sp, rt, xfer, bot, first, batches, chunks, files, index_channel, plain_posted, temp,
                   op, sync, dl, uc, ops>>

\* await asyncio.gather(*tasks) returns: every task has appended its metadata.
Gathered ==
    /\ op.kind \in {"upload", "resume"}
    /\ op.pc = "sending"
    /\ \A i \in Indexes : workers[i] \in {"none", "done"}
    /\ op' = [op EXCEPT !.pc = "record", !.next = 0]
    /\ UNCHANGED <<lg, pg, asm, pool, mf, dc, sp, rt, xfer, bot, first, batches, chunks, files, threads, index_channel, plain_posted,
                   temp, workers, results, sync, dl, uc, ops>>

\* asyncio.gather raises the first UploadError into on_ready; the other tasks
\* are not cancelled.  except Exception: status "failed".
GatherRaised ==
    /\ op.kind \in {"upload", "resume"}
    /\ op.pc = "sending"
    /\ \E i \in Indexes : workers[i] = "failed"
    /\ UploadExcept
    /\ UNCHANGED <<lg, pg, asm, pool, mf, dc, sp, rt, xfer, bot, first, chunks, files, threads, index_channel, plain_posted, temp,
                   workers, results, sync, dl, uc, ops>>

\* The indexes whose metadata the command still has to record, in order.
ToRecord == {i \in Indexes : workers[i] = "done" /\ i >= op.next}

Min(S) == CHOOSE x \in S : \A y \in S : x <= y

\* for meta, file_hash in zip(chunk_metadata, chunk_hashes): add_chunk(...)
\* (upload) / for meta in chunk_metadata: add_chunk(...) (resume_upload).
RecordChunk(dbok) ==
    /\ op.kind \in {"upload", "resume"}
    /\ op.pc = "record"
    /\ ToRecord # {}
    /\ LET i == Min(ToRecord)
           row == ChunkRow(op.thread, op.batch, i, results[i],
                           Sha256(Data(op.thread, i)))
       IN IF dbok /\ add_chunk_ok(row)
          THEN /\ chunks' = add_chunk(row)
               /\ op' = [op EXCEPT !.next = i + 1]
               /\ UNCHANGED batches
          ELSE /\ UploadExcept
               /\ UNCHANGED chunks
    /\ UNCHANGED <<lg, pg, asm, pool, mf, dc, sp, rt, xfer, bot, first, files, threads, index_channel, plain_posted, temp,
                   workers, results, sync, dl, uc, ops>>

\* update_batch_status(batch_id, "complete"); cleanup_temp_files(temp_dir).
Complete ==
    /\ op.kind \in {"upload", "resume"}
    /\ op.pc = "record"
    /\ ToRecord = {}
    /\ batches' = update_batch_status(op.batch, "complete")
    /\ temp' = [temp EXCEPT ![op.batch] = 0]
    /\ op' = [op EXCEPT !.pc = "closing"]
    /\ UNCHANGED <<lg, pg, asm, pool, mf, dc, sp, rt, xfer, bot, first, chunks, files, threads, index_channel, plain_posted,
                   workers, results, sync, dl, uc, ops>>

\* finally: await client.close(); the command returns and its tasks end.
Close ==
    /\ op.kind \in {"upload", "resume"}
    /\ op.pc = "closing"
    /\ op' = Idle
    /\ workers' = [i \in Indexes |-> "none"]
    /\ results' = [i \in Indexes |-> 0]
    /\ UNCHANGED <<lg, pg, asm, pool, mf, dc, sp, rt, xfer, bot, first, batches, chunks, files, threads, index_channel, plain_posted,
                   temp, sync, dl, uc, ops>>

\* The process of a running upload or resume is killed (coarse cancellation).
Abandon ==
    /\ op.kind \in {"upload", "resume"}
    /\ op' = Idle
    /\ workers' = [i \in Indexes |-> "none"]
    /\ results' = [i \in Indexes |-> 0]
    /\ UNCHANGED <<lg, pg, asm, pool, mf, dc, sp, rt, xfer, bot, first, batches, chunks, files, threads, index_channel, plain_posted,
                   temp, sync, dl, uc, ops>>


\* ------------------------------------------------------- resume_upload()
\* remaining = [item for item in indexed_paths if item[0] not in uploaded]
Remaining(b) ==
    {i \in 0 .. (temp[b] - 1) : \A r \in get_chunks(b) : r.chunk_index # i}

\* resume_upload up to client.start: nothing remains, so the batch is marked
\* complete and the temporary directory removed.
ResumeNothingLeft(b) ==
    /\ ops < MaxOps
    /\ ops' = ops + 1
    /\ op = Idle
    /\ \E r \in get_batch(b) : r.status # "complete"
    /\ temp[b] > 0
    /\ Remaining(b) = {}
    /\ batches' = update_batch_status(b, "complete")
    /\ temp' = [temp EXCEPT ![b] = 0]
    /\ UNCHANGED <<lg, pg, asm, pool, mf, dc, sp, rt, xfer, bot, first, chunks, files, threads, index_channel, plain_posted,
                   op, workers, results, sync, dl, uc>>

\* resume_upload up to client.start, with chunks remaining.
ResumeStart(b) ==
    /\ ops < MaxOps
    /\ ops' = ops + 1
    /\ op = Idle
    /\ \E r \in get_batch(b) :
          /\ r.status # "complete"
          /\ op' = [kind |-> "resume", batch |-> b, thread |-> r.thread_id,
                    pc |-> "thread", next |-> 0]
    /\ temp[b] > 0
    /\ Remaining(b) # {}
    /\ UNCHANGED <<lg, pg, asm, pool, mf, dc, sp, rt, xfer, bot, first, batches, chunks, files, threads, index_channel, plain_posted,
                   temp, workers, results, sync, dl, uc>>

\* on_ready of resume_upload: the thread is fetched, then the _upload tasks
\* of upload_chunks_concurrent are created for the remaining chunks.
ResumeFetchThread(ok) ==
    /\ op.kind = "resume" /\ op.pc = "thread"
    /\ IF ok /\ threads[op.thread].state = "live"
       THEN /\ workers' = [i \in Indexes |->
                              IF i \in Remaining(op.batch) THEN "pending" ELSE "none"]
            /\ results' = [i \in Indexes |-> 0]
            /\ op' = [op EXCEPT !.pc = "sending"]
            /\ UNCHANGED batches
       ELSE /\ UploadExcept
            /\ UNCHANGED <<workers, results>>
    /\ UNCHANGED <<lg, pg, asm, pool, mf, dc, sp, rt, xfer, bot, first, chunks, files, threads, index_channel, plain_posted, temp,
                   sync, dl, uc, ops>>

\* ------------------------------------------------------------ delete
\* `except discord.NotFound: pass` around thread.delete() and around
\* message.delete(): the exception the handler takes.
except_nothing(exc) == FALSE

except_NotFound(exc) == exc = "NotFound"

\* The card of a batch row is in the index channel.
CardPosted(row) ==
    \E k \in 1 .. Len(index_channel) : index_channel[k].mid = row.archive_message_id

\* command_delete, first half: _delete_from_discord when asked (fetch the
\* thread and thread.delete(), then fetch the card and message.delete()).
\* An exception that is not taken ends the command before delete_batch.
DeleteFromDiscord(b, remote, outcome) ==
    /\ ops < MaxOps
    /\ ops' = ops + 1
    /\ op = Idle
    /\ get_batch(b) # {}
    /\ remote \/ outcome = "ok"
    /\ LET row == CHOOSE r \in get_batch(b) : TRUE
           gone == [NoThread EXCEPT !.state = "deleted"]
           thread_exc == IF ~remote THEN ""
                         ELSE IF outcome = "thread_error" THEN "HTTPException"
                         ELSE IF threads[row.thread_id].state = "live" THEN ""
                         ELSE "NotFound"
           thread_raised == thread_exc # "" /\ ~except_NotFound(thread_exc)
           card_exc == IF ~remote \/ thread_raised THEN ""
                       ELSE IF outcome = "card_error" THEN "HTTPException"
                       ELSE IF CardPosted(row) THEN ""
                       ELSE "NotFound"
           card_raised == card_exc # "" /\ ~except_NotFound(card_exc)
           dropThread == remote /\ thread_exc = ""
           dropCard == remote /\ ~thread_raised /\ card_exc = ""
       IN /\ threads' = IF dropThread
                        THEN [threads EXCEPT ![row.thread_id] = gone]
                        ELSE threads
          /\ index_channel' =
                IF dropCard
                THEN SelectSeq(index_channel,
                               LAMBDA c : c.mid # row.archive_message_id)
                ELSE index_channel
          /\ op' = IF thread_raised \/ card_raised THEN Idle
                   ELSE [Idle EXCEPT
                           !.kind = "delete", !.batch = b, !.thread = row.thread_id,
                           !.pc = IF "NotFound" \in {thread_exc, card_exc}
                                  THEN "delete_batch, NotFound passed"
                                  ELSE "delete_batch"]
    /\ UNCHANGED <<lg, pg, asm, pool, mf, dc, sp, rt, xfer, bot, first, batches, chunks, files, plain_posted, temp,
                   workers, results, sync, dl, uc>>

\* command_delete, second half: delete_batch(batch_id).
DeleteBatch ==
    /\ op.kind = "delete"
    /\ batches' = delete_batch_rows(op.batch)
    /\ chunks' = delete_cascade(chunks, op.batch)
    /\ files' = delete_cascade(files, op.batch)
    /\ op' = Idle
    /\ UNCHANGED <<lg, pg, asm, pool, mf, dc, sp, rt, xfer, bot, first, threads, index_channel, plain_posted, temp,
                   workers, results, sync, dl, uc, ops>>

\* ------------------------------------------------- index channel history
\* A card of the format BATCH_ID_RE and THREAD_ID_RE are written for
\* ("Batch ID: `..`", "Thread ID: `..`"), present in the channel history
\* without having been posted by create_archive_card.
PlainCard(b, t, k) ==
    [mid |-> [kind |-> "plain", n |-> k, of |-> b],
     id_sep |-> " ", thread_label |-> "Thread ID:", thread_sep |-> " ",
     batch_id |-> b, thread_id |-> t, chunk_count |-> 0]

PostPlainCard(b, t) ==
    /\ op = Idle
    /\ plain_posted < MaxPlainCards
    /\ threads[t].state = "live"
    /\ plain_posted' = plain_posted + 1
    /\ index_channel' = Append(index_channel, PlainCard(b, t, plain_posted + 1))
    /\ UNCHANGED <<lg, pg, asm, pool, mf, dc, sp, rt, xfer, bot, first, batches, chunks, files, threads, temp, op, workers, results,
                   sync, dl, uc, ops>>


\* ------------------------------------------------------ sync_from_discord
\* What \s* matches.
Whitespace == {"", " "}

\* BATCH_ID_RE = re.compile(r"Batch ID:\s*`([^`]+)`"): whether it matches.
BATCH_ID_RE(card) == card.id_sep \in Whitespace

\* THREAD_ID_RE = re.compile(r"Thread ID:\s*`([^`]+)`"): whether it matches.
THREAD_ID_RE(card) ==
    card.thread_label = "Thread ID:" /\ card.thread_sep \in Whitespace

\* _collect_thread_data: the attachments of the thread sorted by part index
\* (list.sort is stable: copies of one part keep their posting order).
RECURSIVE AttachmentsFrom(_, _)
AttachmentsFrom(t, i) ==
    IF i >= MaxChunks
    THEN <<>>
    ELSE [c \in 1 .. threads[t].att[i] |-> Locator(t, i, c)]
         \o AttachmentsFrom(t, i + 1)

collect_thread_data(t) == AttachmentsFrom(t, 0)

\* if reset_db and DEFAULT_DB_PATH.exists(): DEFAULT_DB_PATH.unlink()
ResetTablesAlways(table, reset) == {}

ResetTablesNever(table, reset) == table

ResetTables(table, reset) == IF reset THEN {} ELSE table

\* sync_from_discord up to client.start: optional reset, init_database().
SyncStart(reset) ==
    /\ ops < MaxOps
    /\ ops' = ops + 1
    /\ op = Idle
    /\ batches' = ResetTables(batches, reset)
    /\ chunks' = ResetTables(chunks, reset)
    /\ files' = ResetTables(files, reset)
    /\ op' = [kind |-> "sync", batch |-> "", thread |-> "", pc |-> "scan", next |-> 0]
    /\ sync' = [NoSync EXCEPT !.reset = reset, !.pos = 1]
    /\ UNCHANGED <<lg, pg, asm, pool, mf, dc, sp, rt, xfer, bot, first, threads, index_channel, plain_posted, temp, workers, results,
                   dl, uc>>

\* Whether the loop body reaches create_batch for this card.
SyncTakes(card) ==
    /\ BATCH_ID_RE(card)
    /\ get_batch(card.batch_id) = {}
    /\ THREAD_ID_RE(card)

\* The batch row sync_from_discord builds from the thread.
SyncBatchRow(card) ==
    LET t == card.thread_id
        salt == IF threads[t].meta > 0 THEN "salt" ELSE ""
    IN [batch_id |-> card.batch_id,
        chunk_count |-> Len(collect_thread_data(t)),
        status |-> IF salt # "" THEN "complete" ELSE "incomplete",
        encryption_salt |-> salt,
        archive_message_id |-> card.mid,
        thread_id |-> t]

\* One iteration of `async for message in index_channel.history(limit=None,
\* oldest_first=True)` up to and including create_batch.
SyncCard(ok, dbok) ==
    /\ op.kind = "sync" /\ op.pc = "scan"
    /\ sync.pos <= Len(index_channel)
    /\ LET card == index_channel[sync.pos]
           t == card.thread_id
       IN IF ~SyncTakes(card)
          THEN /\ sync' = [sync EXCEPT !.pos = @ + 1]
               /\ UNCHANGED <<batches, op>>
          ELSE IF ~ok \/ threads[t].state # "live"
          THEN \* fetch_channel raises: except Exception -> done.set_exception
               /\ op' = [op EXCEPT !.pc = "raised"]
               /\ sync' = [sync EXCEPT !.error = "NotFound"]
               /\ UNCHANGED batches
          ELSE IF collect_thread_data(t) = <<>>
          THEN /\ sync' = [sync EXCEPT !.pos = @ + 1]
               /\ UNCHANGED <<batches, op>>
          ELSE IF dbok /\ create_batch_ok(SyncBatchRow(card))
          THEN /\ batches' = create_batch(SyncBatchRow(card))
               /\ sync' = [sync EXCEPT !.todo = collect_thread_data(t),
                                       !.batch = card.batch_id, !.thread = t]
               /\ op' = [op EXCEPT !.pc = "chunks"]
          ELSE /\ op' = [op EXCEPT !.pc = "raised"]
               /\ sync' = [sync EXCEPT !.error = "DatabaseError"]
               /\ UNCHANGED batches
    /\ UNCHANGED <<lg, pg, asm, pool, mf, dc, sp, rt, xfer, bot, first, chunks, files, threads, index_channel, plain_posted, temp,
                   workers, results, dl, uc, ops>>

\* for index, attachment, msg in attachments: add_chunk({... "file_hash": ""})
SyncAddChunk(dbok) ==
    /\ op.kind = "sync" /\ op.pc = "chunks"
    /\ sync.todo # <<>>
    /\ LET a == Head(sync.todo)
           row == ChunkRow(sync.thread, sync.batch, a.index, a.copy, EmptyHash)
       IN IF dbok /\ add_chunk_ok(row)
          THEN /\ chunks' = add_chunk(row)
               /\ sync' = [sync EXCEPT !.todo = Tail(@)]
               /\ UNCHANGED op
          ELSE /\ op' = [op EXCEPT !.pc = "raised"]
               /\ sync' = [sync EXCEPT !.error = "DatabaseError"]
               /\ UNCHANGED chunks
    /\ UNCHANGED <<lg, pg, asm, pool, mf, dc, sp, rt, xfer, bot, first, batches, files, threads, index_channel, plain_posted, temp,
                   workers, results, dl, uc, ops>>

\* synced += 1, and on to the next message.
SyncCardDone ==
    /\ op.kind = "sync" /\ op.pc = "chunks"
    /\ sync.todo = <<>>
    /\ sync' = [sync EXCEPT !.pos = @ + 1, !.synced = @ + 1,
                            !.batch = "", !.thread = ""]
    /\ op' = [op EXCEPT !.pc = "scan"]
    /\ UNCHANGED <<lg, pg, asm, pool, mf, dc, sp, rt, xfer, bot, first, batches, chunks, files, threads, index_channel, plain_posted,
                   temp, workers, results, dl, uc, ops>>

\* index_channel is None: raise StorageBotError("Batch index channel not
\* found."), before the history is read.
SyncNoIndexChannel ==
    /\ op.kind = "sync" /\ op.pc = "scan"
    /\ sync.pos = 1
    /\ op' = [op EXCEPT !.pc = "raised"]
    /\ sync' = [sync EXCEPT !.error = "Batch index channel not found."]
    /\ UNCHANGED <<lg, pg, asm, pool, mf, dc, sp, rt, xfer, bot, first, batches, chunks, files, threads, index_channel, plain_posted,
                   temp, workers, results, dl, uc, ops>>

\* done.set_result(synced) or done.set_exception(exc); client.close().
SyncDone ==
    /\ op.kind = "sync"
    /\ \/ op.pc = "scan" /\ sync.pos > Len(index_channel)
       \/ op.pc = "raised"
    /\ op' = Idle
    /\ sync' = NoSync
    /\ UNCHANGED <<lg, pg, asm, pool, mf, dc, sp, rt, xfer, bot, first, batches, chunks, files, threads, index_channel, plain_posted,
                   temp, workers, results, dl, uc, ops>>


\* ------------------------------------------------------------ download()
\* get_chunks(batch_id): the rows ordered by chunk_index.
RECURSIVE RowsFrom(_, _)
RowsFrom(b, i) ==
    IF i >= MaxChunks
    THEN <<>>
    ELSE LET R == {r \in get_chunks(b) : r.chunk_index = i}
         IN (IF R = {} THEN <<>> ELSE <<CHOOSE r \in R : TRUE>>)
            \o RowsFrom(b, i + 1)

ChunkRows(b) == RowsFrom(b, 0)

\* Whether the host still serves the attachment a locator names.
Retrievable(loc) ==
    /\ threads[loc.thread].state = "live"
    /\ loc.copy <= threads[loc.thread].att[loc.index]

\* The encrypted stream encrypt_file wrote for the batch stored in thread t,
\* as split_file cut it: the parts 0 .. n-1, n being the chunk_count of META.
FullStream(t) == [k \in 1 .. threads[t].meta |-> Data(t, k - 1)]

\* download() up to the try block: the batch and its chunk rows are read.
DownloadStart(b) ==
    /\ op = Idle
    /\ get_batch(b) # {}
    /\ get_chunks(b) # {}
    /\ op' = [kind |-> "download", batch |-> b, thread |-> "", pc |-> "fetch", next |-> 0]
    /\ dl' = NoDownload
    /\ UNCHANGED <<lg, pg, asm, pool, mf, dc, sp, rt, xfer, bot, first, batches, chunks, files, threads, index_channel, plain_posted,
                   temp, workers, results, sync, uc, ops>>

\* download_chunks_concurrent: every row's attachment is fetched to
\* chunk_<index>.bin; a response other than 200 raises DownloadError.
DownloadFetch(arrives) ==
    /\ op.kind = "download" /\ op.pc = "fetch"
    /\ LET rows == ChunkRows(op.batch)
           lost == {k \in 1 .. Len(rows) :
                       \/ ~Retrievable(rows[k].discord_attachment_url)
                       \/ arrives[rows[k].chunk_index] = "unavailable"}
           bytes(k) == LET loc == rows[k].discord_attachment_url
                       IN IF arrives[rows[k].chunk_index] = "corrupt"
                          THEN Corrupt(loc.thread, loc.index)
                          ELSE Data(loc.thread, loc.index)
       IN IF lost # {}
          THEN /\ dl' = [dl EXCEPT !.error = "DownloadError"]
               /\ op' = [op EXCEPT !.pc = "raised"]
          ELSE /\ dl' = [dl EXCEPT !.fetched = [k \in 1 .. Len(rows) |-> bytes(k)]]
               /\ op' = [op EXCEPT !.pc = "verify"]
    /\ UNCHANGED <<lg, pg, asm, pool, mf, dc, sp, rt, xfer, bot, first, batches, chunks, files, threads, index_channel, plain_posted,
                   temp, workers, results, sync, uc, ops>>

\* verify_chunk_async: hmac.compare_digest(digest.hexdigest(), expected_hash).
verify_chunk_unchecked(bytes, expected_hash) == TRUE

verify_chunk(bytes, expected_hash) == Sha256(bytes) = expected_hash

\* verify_chunks_parallel(chunk_paths, [chunk["file_hash"] for chunk in chunks])
DownloadVerify ==
    /\ op.kind = "download" /\ op.pc = "verify"
    /\ LET rows == ChunkRows(op.batch)
       IN IF \A k \in 1 .. Len(dl.fetched) :
                 verify_chunk(dl.fetched[k], rows[k].file_hash)
          THEN /\ op' = [op EXCEPT !.pc = "merge"]
               /\ UNCHANGED dl
          ELSE /\ dl' = [dl EXCEPT !.error = "Chunk integrity check failed"]
               /\ op' = [op EXCEPT !.pc = "raised"]
    /\ UNCHANGED <<lg, pg, asm, pool, mf, dc, sp, rt, xfer, bot, first, batches, chunks, files, threads, index_channel, plain_posted,
                   temp, workers, results, sync, uc, ops>>

\* merge_chunks(chunk_paths, encrypted_path): concatenation in list order.
DownloadMerge ==
    /\ op.kind = "download" /\ op.pc = "merge"
    /\ dl' = [dl EXCEPT !.merged = dl.fetched]
    /\ op' = [op EXCEPT !.pc = "decrypt"]
    /\ UNCHANGED <<lg, pg, asm, pool, mf, dc, sp, rt, xfer, bot, first, batches, chunks, files, threads, index_channel, plain_posted,
                   temp, workers, results, sync, uc, ops>>

\* The salt check and decrypt_file(encrypted_path, archive_path, key).  A
\* stream with parts missing fails to parse (EncryptionError) unless the
\* missing parts are whole length-prefixed records (framed).
DownloadDecrypt(framed) ==
    /\ op.kind = "download" /\ op.pc = "decrypt"
    /\ LET row == CHOOSE r \in get_batch(op.batch) : TRUE
           t == dl.merged[1].thread
       IN IF row.encryption_salt = ""
          THEN /\ dl' = [dl EXCEPT !.error = "Missing encryption metadata"]
               /\ op' = [op EXCEPT !.pc = "raised"]
          ELSE IF dl.merged = FullStream(t) \/ framed
          THEN /\ op' = [op EXCEPT !.pc = "extract"]
               /\ UNCHANGED dl
          ELSE /\ dl' = [dl EXCEPT !.error = "EncryptionError"]
               /\ op' = [op EXCEPT !.pc = "raised"]
    /\ UNCHANGED <<lg, pg, asm, pool, mf, dc, sp, rt, xfer, bot, first, batches, chunks, files, threads, index_channel, plain_posted,
                   temp, workers, results, sync, uc, ops>>

\* extract_archive(archive_path, restore_dir): a complete archive is restored;
\* a shortened one raises, after tar.extractall wrote the members it could read
\* (written) or none.
DownloadExtract(written) ==
    /\ op.kind = "download" /\ op.pc = "extract"
    /\ LET t == dl.merged[1].thread
       IN IF dl.merged = FullStream(t)
          THEN /\ dl' = [dl EXCEPT !.restored = "full"]
               /\ op' = [op EXCEPT !.pc = "returned"]
          ELSE /\ dl' = [dl EXCEPT !.restored = IF written THEN "partial" ELSE "none",
                                   !.error = "ReadError"]
               /\ op' = [op EXCEPT !.pc = "raised"]
    /\ UNCHANGED <<lg, pg, asm, pool, mf, dc, sp, rt, xfer, bot, first, batches, chunks, files, threads, index_channel, plain_posted,
                   temp, workers, results, sync, uc, ops>>

\* shutil.rmtree(temp_dir); return restore_dir / raise.
DownloadReturn ==
    /\ op.kind = "download" /\ op.pc \in {"returned", "raised"}
    /\ op' = Idle
    /\ dl' = NoDownload
    /\ UNCHANGED <<lg, pg, asm, pool, mf, dc, sp, rt, xfer, bot, first, batches, chunks, files, threads, index_channel, plain_posted,
                   temp, workers, results, sync, uc, ops>>

\* ---------------------------------------------------------- upload_chunk
\* upload_chunk(thread, chunk_path, index): delay = 1.0, attempt = 1.
CallUploadChunk(t, i) ==
    /\ uc = NoCall
    /\ threads[t].state = "live"
    /\ uc' = [NoCall EXCEPT !.thread = t, !.index = i, !.attempt = 1,
                            !.delay = 1, !.st = "trying"]
    /\ UNCHANGED <<lg, pg, asm, pool, mf, dc, sp, rt, xfer, bot, first, batches, chunks, files, threads, index_channel, plain_posted,
                   temp, op, workers, results, sync, dl, ops>>

\* The for loop's step after an attempt that did not return: the next value of
\* range(1, retries + 1), or the raise after the loop when it is exhausted.
NextAttempt(call) ==
    IF call.attempt >= Retries
    THEN [call EXCEPT !.st = "failed"]
    ELSE [call EXCEPT !.attempt = @ + 1]

\* One iteration of `for attempt in range(1, retries + 1)`: thread.send and
\* the except clause taken for the host's response.
SendAttempt(response, retry_after) ==
    /\ uc.st = "trying"
    /\ CASE response = "ok" ->
              /\ threads[uc.thread].att[uc.index] < MaxCopies
              /\ threads' = send_file(uc.thread, uc.index)
              /\ uc' = [uc EXCEPT !.st = "returned"]
         [] response = "RateLimited" ->
              \* await asyncio.sleep(exc.retry_after); continue
              /\ uc' = NextAttempt([uc EXCEPT !.limited = @ + 1,
                                              !.slept = @ + retry_after])
              /\ UNCHANGED threads
         [] response = "HTTPException" ->
              /\ uc' = IF uc.attempt >= Retries
                       THEN [uc EXCEPT !.http = @ + 1, !.st = "failed"]
                       ELSE NextAttempt([uc EXCEPT !.http = @ + 1,
                                                   !.slept = @ + uc.delay,
                                                   !.delay = 2 * @])
              /\ UNCHANGED threads
         [] response = "Exception" ->
              /\ uc' = [uc EXCEPT !.unexpected = TRUE, !.st = "failed"]
              /\ UNCHANGED threads
    /\ UNCHANGED <<lg, pg, asm, pool, mf, dc, sp, rt, xfer, bot, first, batches, chunks, files, index_channel, plain_posted,
                   temp, op, workers, results, sync, dl, ops>>

\* The caller has the metadata or the UploadError.
UploadChunkEnds ==
    /\ uc.st \in {"returned", "failed"}
    /\ uc' = NoCall
    /\ UNCHANGED <<lg, pg, asm, pool, mf, dc, sp, rt, xfer, bot, first, batches, chunks, files, threads, index_channel, plain_posted,
                   temp, op, workers, results, sync, dl, ops>>

\* ----------------------------------------------------------- specifications
Responses == {"ok", "RateLimited", "HTTPException", "Exception"}
Arrivals == {"ok", "corrupt", "unavailable"}

Next ==
    \/ \E b \in BatchIds, n \in 1 .. MaxChunks : UploadPrepare(b, n)
    \/ \E ok \in BOOLEAN : UploadCreateThread(ok)
    \/ \E ok \in BOOLEAN : UploadPostCard(ok)
    \/ \E dbok \in BOOLEAN : UploadCreateBatch(dbok)
    \/ \E ok \in BOOLEAN : UploadSendMeta(ok)
    \/ \E i \in Indexes : WorkerAcquire(i)
    \/ \E i \in Indexes, ok \in BOOLEAN : WorkerFinish(i, ok)
    \/ Gathered
    \/ GatherRaised
    \/ \E dbok \in BOOLEAN : RecordChunk(dbok)
    \/ Complete
    \/ Close
    \/ Abandon
    \/ \E b \in BatchIds : ResumeNothingLeft(b)
    \/ \E b \in BatchIds : ResumeStart(b)
    \/ \E ok \in BOOLEAN : ResumeFetchThread(ok)
    \/ \E b \in BatchIds, remote \in BOOLEAN,
          outcome \in {"ok", "thread_error", "card_error"} :
             DeleteFromDiscord(b, remote, outcome)
    \/ DeleteBatch
    \/ \E b \in BatchIds, t \in ThreadIds : PostPlainCard(b, t)
    \/ \E reset \in BOOLEAN : SyncStart(reset)
    \/ \E ok \in BOOLEAN, dbok \in BOOLEAN : SyncCard(ok, dbok)
    \/ \E dbok \in BOOLEAN : SyncAddChunk(dbok)
    \/ SyncCardDone
    \/ SyncNoIndexChannel
    \/ SyncDone
    \/ \E b \in BatchIds : DownloadStart(b)
    \/ \E arrives \in [Indexes -> Arrivals] : DownloadFetch(arrives)
    \/ DownloadVerify
    \/ DownloadMerge
    \/ \E framed \in BOOLEAN : DownloadDecrypt(framed)
    \/ \E written \in BOOLEAN : DownloadExtract(written)
    \/ DownloadReturn

Spec == Init /\ [][Next]_vars

\* upload_chunk on its own: the thread exists, the host answers each send.
InitChunk ==
    /\ Init!1 /\ Init!2 /\ Init!3
    /\ threads = [t \in ThreadIds |-> [NoThread EXCEPT !.state = "live"]]
    /\ index_channel = <<>>
    /\ plain_posted = 0
    /\ temp = [b \in BatchIds |-> 0]
    /\ op = Idle
    /\ workers = [i \in Indexes |-> "none"]
    /\ results = [i \in Indexes |-> 0]
    /\ sync = NoSync
    /\ dl = NoDownload
    /\ uc = NoCall
    /\ ops = 0
    /\ first = NoSnapshot
    /\ bot = NoBot
    /\ xfer = NoTransfer
    /\ rt = NoRoundTrip
    /\ sp = NoSplit
    /\ dc = NoDecrypt
    /\ mf = NoManifests
    /\ pool = NoPool
    /\ asm = NoAssemble
    /\ pg = NoProgress
    /\ lg = NoLog

NextChunk ==
    \/ \E t \in ThreadIds, i \in Indexes : CallUploadChunk(t, i)
    \/ \E response \in Responses, retry_after \in 1 .. MaxRetryAfter :
          SendAttempt(response, retry_after)
    \/ UploadChunkEnds

SpecChunk == InitChunk /\ [][NextChunk]_vars


\* ----------------------------------------------- rebuilding the index twice
\* The states a thread can be in after uploads and resumes: the META message
\* is sent before any part, and parts are named by indexes below its count.
ThreadHistories ==
    {NoThread, [NoThread EXCEPT !.state = "deleted"]}
    \cup UNION {{[state |-> "live", meta |-> m, att |-> a] :
                   a \in {f \in [Indexes -> 0 .. MaxCopies] :
                            \A i \in Indexes : f[i] > 0 => i < m}} :
                m \in 0 .. MaxChunks}

\* Index channel histories of cards that sync_from_discord reads.
CardHistories ==
    UNION {{[k \in 1 .. n |-> PlainCard(bs[k], ts[k], k)] :
              bs \in [1 .. n -> BatchIds], ts \in [1 .. n -> ThreadIds]} :
           n \in 0 .. MaxPlainCards}

\* A remote history at rest and an empty local index.
InitSync ==
    /\ first = NoSnapshot
    /\ batches = {} /\ chunks = {} /\ files = {}
    /\ threads \in [ThreadIds -> ThreadHistories]
    /\ index_channel \in CardHistories
    /\ plain_posted = Len(index_channel)
    /\ temp = [b \in BatchIds |-> 0]
    /\ op = Idle
    /\ workers = [i \in Indexes |-> "none"]
    /\ results = [i \in Indexes |-> 0]
    /\ sync = NoSync
    /\ dl = NoDownload
    /\ uc = NoCall
    /\ ops = 0
    /\ bot = NoBot
    /\ xfer = NoTransfer
    /\ rt = NoRoundTrip
    /\ sp = NoSplit
    /\ dc = NoDecrypt
    /\ mf = NoManifests
    /\ pool = NoPool
    /\ asm = NoAssemble
    /\ pg = NoProgress
    /\ lg = NoLog

\* Whether the running sync_from_discord has finished its walk or raised.
SyncEnded ==
    /\ op.kind = "sync"
    /\ \/ op.pc = "scan" /\ sync.pos > Len(index_channel)
       \/ op.pc = "raised"

\* The rows the first rebuild (sync with reset) left, kept for comparison.
Snapshot ==
    /\ SyncEnded /\ sync.reset
    /\ ~first.taken
    /\ first' = [taken |-> TRUE, batches |-> batches, chunks |-> chunks]
    /\ UNCHANGED <<lg, pg, asm, pool, mf, dc, sp, rt, xfer, bot, batches, chunks, files, threads, index_channel, plain_posted,
                   temp, op, workers, results, sync, dl, uc, ops>>

\* Rebuilds of the index from a reachable, unchanged remote history.
NextSync ==
    \/ SyncStart(TRUE)
    \/ SyncCard(TRUE, TRUE)
    \/ SyncAddChunk(TRUE)
    \/ SyncCardDone
    \/ SyncDone
    \/ Snapshot

SpecSync == InitSync /\ [][NextSync]_vars

\* ------------------------------------------------------------------ the bot
\* status after the gather of the upload command: "partial" if failed_files
\* and uploaded_files, "failed" if only failed_files, else "success".
BotStatusLatestOnly(uploaded_files, failed_files) ==
    IF failed_files # {} THEN "failed" ELSE "success"

BotStatus(uploaded_files, failed_files) ==
    IF failed_files # {}
    THEN (IF uploaded_files # {} THEN "partial" ELSE "failed")
    ELSE "success"

\* A chunk file appears in the upload folder (the slicer's output).
BotPlaceFile(f) ==
    /\ bot.pc = "idle"
    /\ f \notin bot.folder
    /\ bot' = [bot EXCEPT !.folder = @ \cup {f}]
    /\ UNCHANGED <<lg, pg, asm, pool, mf, dc, sp, rt, xfer, first, batches, chunks, files, threads, index_channel, plain_posted, temp,
                   op, workers, results, sync, dl, uc, ops>>

\* !upload up to the gather: list_upload_files, create_archive_card,
\* create_thread (on failure the command returns; the card stays).
BotUploadStart(thread_ok) ==
    /\ bot.pc = "idle"
    /\ bot.commands < MaxBotCommands
    /\ bot.card = NoEntry
    /\ bot.folder # {}
    /\ LET card == [NoEntry EXCEPT !.status = "partial", !.files = bot.folder]
       IN bot' = IF thread_ok
                 THEN [bot EXCEPT !.card = card, !.thread = "live",
                                  !.pc = "uploading", !.commands = @ + 1,
                                  !.run = [NoRun EXCEPT !.todo = bot.folder]]
                 ELSE [bot EXCEPT !.card = card, !.commands = @ + 1]
    /\ UNCHANGED <<lg, pg, asm, pool, mf, dc, sp, rt, xfer, first, batches, chunks, files, threads, index_channel, plain_posted, temp,
                   op, workers, results, sync, dl, uc, ops>>

\* upload_chunk: async with semaphore.
BotAcquire(f) ==
    /\ bot.pc = "uploading"
    /\ f \in bot.run.todo
    /\ SemaphoreFree(BotConcurrentUploads, Cardinality(bot.run.flying))
    /\ bot' = [bot EXCEPT !.run.todo = @ \ {f}, !.run.flying = @ \cup {f}]
    /\ UNCHANGED <<lg, pg, asm, pool, mf, dc, sp, rt, xfer, first, batches, chunks, files, threads, index_channel, plain_posted, temp,
                   op, workers, results, sync, dl, uc, ops>>

\* upload_chunk: thread.send, os.remove, the lists under upload_lock, and the
\* archive card update when the rate limit lets it through and it succeeds.
BotSend(f, ok, removed, edited) ==
    /\ bot.pc = "uploading"
    /\ f \in bot.run.flying
    /\ LET up == IF ok THEN bot.run.uploaded_files \cup {f}
                 ELSE bot.run.uploaded_files
           fl == IF ok THEN bot.run.failed_files
                 ELSE bot.run.failed_files \cup {f}
       IN bot' = [bot EXCEPT
                    !.run.flying = @ \ {f},
                    !.run.uploaded_files = up,
                    !.run.failed_files = fl,
                    !.posts = IF ok THEN @ \cup {f} ELSE @,
                    !.folder = IF ok /\ removed THEN @ \ {f} ELSE @,
                    !.card = IF edited
                             THEN [@ EXCEPT !.uploaded_files = up,
                                            !.failed_files = fl,
                                            !.thread_id = TRUE]
                             ELSE @]
    /\ UNCHANGED <<lg, pg, asm, pool, mf, dc, sp, rt, xfer, first, batches, chunks, files, threads, index_channel, plain_posted, temp,
                   op, workers, results, sync, dl, uc, ops>>

\* After asyncio.gather(*tasks, return_exceptions=True): the final status.
BotUploadStatus ==
    /\ bot.pc = "uploading"
    /\ bot.run.todo = {} /\ bot.run.flying = {}
    /\ bot' = [bot EXCEPT
                 !.pc = "finishing",
                 !.run.status = BotStatus(bot.run.uploaded_files,
                                          bot.run.failed_files)]
    /\ UNCHANGED <<lg, pg, asm, pool, mf, dc, sp, rt, xfer, first, batches, chunks, files, threads, index_channel, plain_posted, temp,
                   op, workers, results, sync, dl, uc, ops>>

\* update_archive_card (its failure is only printed) and append_log(entry).
BotUploadLog(edited) ==
    /\ bot.pc = "finishing"
    /\ LET entry == [status |-> bot.run.status,
                     uploaded_files |-> bot.run.uploaded_files,
                     failed_files |-> bot.run.failed_files,
                     thread_id |-> TRUE,
                     files |-> bot.card.files]
       IN bot' = [bot EXCEPT !.pc = "idle", !.run = NoRun, !.entry = entry,
                             !.card = IF edited THEN entry ELSE @]
    /\ UNCHANGED <<lg, pg, asm, pool, mf, dc, sp, rt, xfer, first, batches, chunks, files, threads, index_channel, plain_posted, temp,
                   op, workers, results, sync, dl, uc, ops>>

\* The bot process ends while !upload runs.
BotCrash ==
    /\ bot.pc \in {"uploading", "finishing"}
    /\ bot' = [bot EXCEPT !.pc = "idle", !.run = NoRun]
    /\ UNCHANGED <<lg, pg, asm, pool, mf, dc, sp, rt, xfer, first, batches, chunks, files, threads, index_channel, plain_posted, temp,
                   op, workers, results, sync, dl, uc, ops>>

\* on_ready: rebuild_log_from_archive_channel writes the log from the cards.
BotRebuildLog ==
    /\ bot.pc = "idle"
    /\ bot.card # NoEntry
    /\ bot' = [bot EXCEPT !.entry = bot.card]
    /\ UNCHANGED <<lg, pg, asm, pool, mf, dc, sp, rt, xfer, first, batches, chunks, files, threads, index_channel, plain_posted, temp,
                   op, workers, results, sync, dl, uc, ops>>

\* !resume up to the send loop: the target entry, the file list (failed_files,
\* or the whole upload folder when that list is empty), the thread.
BotResumeStart(by_id, card_found, thread_ok) ==
    /\ bot.pc = "idle"
    /\ bot.commands < MaxBotCommands
    /\ bot.entry # NoEntry
    /\ by_id \/ bot.entry.status = "failed"
    /\ LET file_names == IF bot.entry.failed_files # {}
                         THEN bot.entry.failed_files ELSE bot.folder
           file_paths == file_names \cap bot.folder
           found == card_found /\ bot.card # NoEntry
           thread_id == (found /\ bot.card.thread_id) \/ bot.entry.thread_id
           fetched == thread_id /\ thread_ok /\ bot.thread = "live"
           created == ~thread_id /\ found /\ thread_ok /\ bot.thread = "none"
       IN /\ file_paths # {}
          /\ bot' = [bot EXCEPT
                       !.pc = "resuming", !.commands = @ + 1,
                       !.thread = IF created THEN "live" ELSE @,
                       !.run = [NoRun EXCEPT
                                  !.todo = file_paths,
                                  !.missing = file_names \ bot.folder,
                                  !.uploaded_files = bot.entry.uploaded_files,
                                  !.card_found = found,
                                  !.target = IF fetched \/ created
                                             THEN "thread" ELSE "channel"]]
    /\ UNCHANGED <<lg, pg, asm, pool, mf, dc, sp, rt, xfer, first, batches, chunks, files, threads, index_channel, plain_posted, temp,
                   op, workers, results, sync, dl, uc, ops>>

\* for file_path in file_paths: target_channel.send(file=...).
BotResumeSend(f, ok) ==
    /\ bot.pc = "resuming"
    /\ f \in bot.run.todo
    /\ bot' = [bot EXCEPT
                 !.run.todo = @ \ {f},
                 !.run.uploaded_files = IF ok THEN @ \cup {f} ELSE @,
                 !.run.failed_files = IF ok THEN @ ELSE @ \cup {f},
                 !.posts = IF ok /\ bot.run.target = "thread"
                           THEN @ \cup {f} ELSE @,
                 !.channel_posts = IF ok /\ bot.run.target = "channel"
                                   THEN @ \cup {f} ELSE @]
    /\ UNCHANGED <<lg, pg, asm, pool, mf, dc, sp, rt, xfer, first, batches, chunks, files, threads, index_channel, plain_posted, temp,
                   op, workers, results, sync, dl, uc, ops>>

\* failed_files.extend(missing_files);
\* entry["status"] = "success" if not failed_files else "failed".
BotResumeStatus ==
    /\ bot.pc = "resuming"
    /\ bot.run.todo = {}
    /\ LET failed_files == bot.run.failed_files \cup bot.run.missing
       IN bot' = [bot EXCEPT
                    !.pc = "resumed",
                    !.run.failed_files = failed_files,
                    !.run.status = IF failed_files = {} THEN "success"
                                   ELSE "failed"]
    /\ UNCHANGED <<lg, pg, asm, pool, mf, dc, sp, rt, xfer, first, batches, chunks, files, threads, index_channel, plain_posted, temp,
                   op, workers, results, sync, dl, uc, ops>>

\* persist_logs(logs) and, when the card was found, update_archive_card.
BotResumeLog(edited) ==
    /\ bot.pc = "resumed"
    /\ LET entry == [bot.entry EXCEPT
                       !.status = bot.run.status,
                       !.uploaded_files = bot.run.uploaded_files,
                       !.failed_files = bot.run.failed_files,
                       !.thread_id = IF bot.run.target = "thread" THEN TRUE ELSE @]
       IN bot' = [bot EXCEPT
                    !.pc = "idle", !.run = NoRun, !.entry = entry,
                    !.card = IF bot.run.card_found /\ edited
                             THEN [@ EXCEPT
                                     !.status = entry.status,
                                     !.uploaded_files = entry.uploaded_files,
                                     !.failed_files = entry.failed_files,
                                     !.thread_id = entry.thread_id]
                             ELSE @]
    /\ UNCHANGED <<lg, pg, asm, pool, mf, dc, sp, rt, xfer, first, batches, chunks, files, threads, index_channel, plain_posted, temp,
                   op, workers, results, sync, dl, uc, ops>>

\* !download up to the loop over the attachments: the thread named by the
\* card or the log entry (download_from_thread), else the messages of the
\* storage channel (_legacy_download).
BotDownloadStart(thread_ok) ==
    /\ bot.pc = "idle"
    /\ bot.commands < MaxBotCommands
    /\ bot.entry # NoEntry
    /\ LET thread_id == IF bot.card # NoEntry THEN bot.card.thread_id
                        ELSE bot.entry.thread_id
           fetched == thread_id /\ thread_ok /\ bot.thread = "live"
       IN bot' = [bot EXCEPT
                    !.pc = "downloading", !.commands = @ + 1,
                    !.fetch = [NoFetch EXCEPT
                                 !.todo = IF fetched THEN bot.posts
                                          ELSE bot.channel_posts]]
    /\ UNCHANGED <<lg, pg, asm, pool, mf, dc, sp, rt, xfer, first, batches, chunks, files, threads, index_channel, plain_posted, temp,
                   op, workers, results, sync, dl, uc, ops>>

\* One attachment: skipped when os.path.exists(file_path), else
\* attachment.save in up to three attempts.
BotDownloadFile(f, saved) ==
    /\ bot.pc = "downloading"
    /\ f \in bot.fetch.todo
    /\ bot' = IF f \in bot.lot_dir
              THEN [bot EXCEPT !.fetch.todo = @ \ {f},
                               !.fetch.skipped = @ \cup {f}]
              ELSE IF saved
              THEN [bot EXCEPT !.fetch.todo = @ \ {f},
                               !.fetch.success = @ \cup {f},
                               !.lot_dir = @ \cup {f}]
              ELSE [bot EXCEPT !.fetch.todo = @ \ {f},
                               !.fetch.failed = @ \cup {f}]
    /\ UNCHANGED <<lg, pg, asm, pool, mf, dc, sp, rt, xfer, first, batches, chunks, files, threads, index_channel, plain_posted, temp,
                   op, workers, results, sync, dl, uc, ops>>

\* download_from_thread returns success_count, failed_count, skipped_count.
BotDownloadCounts ==
    /\ bot.pc = "downloading"
    /\ bot.fetch.todo = {}
    /\ bot' = [bot EXCEPT !.pc = "downloaded"]
    /\ UNCHANGED <<lg, pg, asm, pool, mf, dc, sp, rt, xfer, first, batches, chunks, files, threads, index_channel, plain_posted, temp,
                   op, workers, results, sync, dl, uc, ops>>

\* if failed_count == 0: reassemble_archive; assemble_from_manifest removes
\* the chunks folder (shutil.rmtree) when it had no errors.
BotReassemble(had_errors) ==
    /\ bot.pc = "downloaded"
    /\ LET assembled == /\ bot.fetch.failed = {}
                        /\ bot.entry.files \subseteq bot.lot_dir
                        /\ ~had_errors
       IN bot' = [bot EXCEPT
                    !.pc = "idle", !.fetch = NoFetch,
                    !.saved_before = @ \cup bot.fetch.success,
                    !.lot_dir = IF assembled THEN {} ELSE @]
    /\ UNCHANGED <<lg, pg, asm, pool, mf, dc, sp, rt, xfer, first, batches, chunks, files, threads, index_channel, plain_posted, temp,
                   op, workers, results, sync, dl, uc, ops>>

NextBot ==
    \/ \E f \in BotFiles : BotPlaceFile(f)
    \/ \E thread_ok \in BOOLEAN : BotUploadStart(thread_ok)
    \/ \E f \in BotFiles : BotAcquire(f)
    \/ \E f \in BotFiles, ok \in BOOLEAN, removed \in BOOLEAN, edited \in BOOLEAN :
          BotSend(f, ok, removed, edited)
    \/ BotUploadStatus
    \/ \E edited \in BOOLEAN : BotUploadLog(edited)
    \/ BotCrash
    \/ BotRebuildLog
    \/ \E by_id \in BOOLEAN, card_found \in BOOLEAN, thread_ok \in BOOLEAN :
          BotResumeStart(by_id, card_found, thread_ok)
    \/ \E f \in BotFiles, ok \in BOOLEAN : BotResumeSend(f, ok)
    \/ BotResumeStatus
    \/ \E edited \in BOOLEAN : BotResumeLog(edited)
    \/ \E thread_ok \in BOOLEAN : BotDownloadStart(thread_ok)
    \/ \E f \in BotFiles, saved \in BOOLEAN : BotDownloadFile(f, saved)
    \/ BotDownloadCounts
    \/ \E had_errors \in BOOLEAN : BotReassemble(had_errors)

SpecBot == Init /\ [][NextBot]_vars

\* ------------------------------------------- one batch through the transfers
\* The bytes split_file wrote to <name>.part<i>.
Part(i) == [part |-> i]

\* The tasks of the running gather that are inside `async with semaphore`.
Holding == {i \in Parts : xfer.task[i] = "holding"}

Waiting == {i \in Parts : xfer.task[i] = "waiting"}

\* sorted(results, key=lambda item: item["chunk_index"]) and
\* [results[index] for index in sorted(results.keys())].
in_completion_order(done) == done

sorted_by_chunk_index(done) ==
    SortSeq(done, LAMBDA a, b : a.chunk_index < b.chunk_index)

\* upload_chunks_concurrent: one task per chunk path, none started yet.
XferUploadStart(n, max_concurrency) ==
    /\ xfer.phase = "idle"
    /\ xfer' = [NoTransfer EXCEPT
                  !.phase = "upload", !.n = n,
                  !.max_concurrency = max_concurrency,
                  !.task = [i \in Parts |-> IF i < n THEN "waiting" ELSE "none"]]
    /\ UNCHANGED <<lg, pg, asm, pool, mf, dc, sp, rt, bot, first, batches, chunks, files, threads, index_channel, plain_posted, temp,
                   op, workers, results, sync, dl, uc, ops>>

\* _upload and _download: async with semaphore.
XferAcquire(i) ==
    /\ xfer.phase \in {"upload", "download"}
    /\ xfer.task[i] = "waiting"
    /\ SemaphoreFree(xfer.max_concurrency, Cardinality(Holding))
    /\ xfer' = [xfer EXCEPT !.task[i] = "holding"]
    /\ UNCHANGED <<lg, pg, asm, pool, mf, dc, sp, rt, bot, first, batches, chunks, files, threads, index_channel, plain_posted, temp,
                   op, workers, results, sync, dl, uc, ops>>

\* _upload: metadata = await upload_chunk(thread, path, index);
\* results.append(metadata). upload_chunk raises when its retries are used up.
XferUploaded(i, ok) ==
    /\ xfer.phase = "upload"
    /\ xfer.task[i] = "holding"
    /\ xfer' = IF ok
               THEN [xfer EXCEPT
                       !.task[i] = "done",
                       !.results = Append(@, [chunk_index |-> i, bytes |-> Part(i)])]
               ELSE [xfer EXCEPT !.task[i] = "failed"]
    /\ UNCHANGED <<lg, pg, asm, pool, mf, dc, sp, rt, bot, first, batches, chunks, files, threads, index_channel, plain_posted, temp,
                   op, workers, results, sync, dl, uc, ops>>

\* await asyncio.gather(*tasks) raises the first exception of a task.
XferUploadRaised ==
    /\ xfer.phase = "upload"
    /\ \E i \in Parts : xfer.task[i] = "failed"
    /\ xfer' = [xfer EXCEPT !.phase = "raised", !.error = "UploadError"]
    /\ UNCHANGED <<lg, pg, asm, pool, mf, dc, sp, rt, bot, first, batches, chunks, files, threads, index_channel, plain_posted, temp,
                   op, workers, results, sync, dl, uc, ops>>

\* upload_chunks_concurrent returns the sorted results; upload() zips them
\* with chunk_hashes (taken in chunk path order) and adds one row each.
XferRecordRows ==
    /\ xfer.phase = "upload"
    /\ \A i \in Parts : xfer.task[i] \in {"none", "done"}
    /\ LET chunk_metadata == sorted_by_chunk_index(xfer.results)
           chunk_hashes == [k \in 1 .. xfer.n |-> Sha256(Part(k - 1))]
       IN xfer' = [xfer EXCEPT
                     !.phase = "recorded",
                     !.uploaded = xfer.results,
                     !.results = <<>>,
                     !.rows = {[chunk_index |-> chunk_metadata[k].chunk_index,
                                stored |-> chunk_metadata[k].bytes,
                                file_hash |-> chunk_hashes[k]] :
                               k \in 1 .. Len(chunk_metadata)}]
    /\ UNCHANGED <<lg, pg, asm, pool, mf, dc, sp, rt, bot, first, batches, chunks, files, threads, index_channel, plain_posted, temp,
                   op, workers, results, sync, dl, uc, ops>>

\* download(): get_chunks, then download_chunks_concurrent creates one task
\* per row.
XferDownloadStart(max_concurrency) ==
    /\ xfer.phase = "recorded"
    /\ xfer' = [xfer EXCEPT
                  !.phase = "download",
                  !.max_concurrency = max_concurrency,
                  !.task = [i \in Parts |->
                              IF \E r \in xfer.rows : r.chunk_index = i
                              THEN "waiting" ELSE "none"]]
    /\ UNCHANGED <<lg, pg, asm, pool, mf, dc, sp, rt, bot, first, batches, chunks, files, threads, index_channel, plain_posted, temp,
                   op, workers, results, sync, dl, uc, ops>>

\* _download: download_chunk writes chunk_<index>.bin;
\* results[data["chunk_index"]] = chunk_path.
XferDownloaded(i) ==
    /\ xfer.phase = "download"
    /\ xfer.task[i] = "holding"
    /\ LET row == CHOOSE r \in xfer.rows : r.chunk_index = i
       IN xfer' = [xfer EXCEPT
                     !.task[i] = "done",
                     !.results = Append(@, [chunk_index |-> i, bytes |-> row.stored])]
    /\ UNCHANGED <<lg, pg, asm, pool, mf, dc, sp, rt, bot, first, batches, chunks, files, threads, index_channel, plain_posted, temp,
                   op, workers, results, sync, dl, uc, ops>>

\* download_chunks_concurrent returns the paths sorted by index; download()
\* runs verify_chunks_parallel against the rows' hashes (ORDER BY
\* chunk_index) and merge_chunks writes the chunks in the order of the list.
XferVerifyMerge ==
    /\ xfer.phase = "download"
    /\ \A i \in Parts : xfer.task[i] \in {"none", "done"}
    /\ LET chunk_paths == sorted_by_chunk_index(xfer.results)
           hashes == [k \in 1 .. xfer.n |->
                        (CHOOSE r \in xfer.rows : r.chunk_index = k - 1).file_hash]
           intact == \A k \in 1 .. Len(chunk_paths) :
                        verify_chunk(chunk_paths[k].bytes, hashes[k])
       IN xfer' = IF intact
                  THEN [xfer EXCEPT
                          !.phase = "done",
                          !.merged = [k \in 1 .. Len(chunk_paths) |->
                                        chunk_paths[k].bytes]]
                  ELSE [xfer EXCEPT
                          !.phase = "raised",
                          !.error = "Chunk integrity check failed"]
    /\ UNCHANGED <<lg, pg, asm, pool, mf, dc, sp, rt, bot, first, batches, chunks, files, threads, index_channel, plain_posted, temp,
                   op, workers, results, sync, dl, uc, ops>>

\* One batch moved by the CLI (an upload, then a download), or one archive
\* sent by the bot's !upload.
NextTransfer ==
    \/ \E n \in 1 .. MaxParts, m \in 1 .. MaxConcurrency :
          bot = NoBot /\ XferUploadStart(n, m)
    \/ \E i \in Parts : bot = NoBot /\ XferAcquire(i)
    \/ \E i \in Parts, ok \in BOOLEAN : bot = NoBot /\ XferUploaded(i, ok)
    \/ bot = NoBot /\ XferUploadRaised
    \/ bot = NoBot /\ XferRecordRows
    \/ \E m \in 1 .. MaxConcurrency : bot = NoBot /\ XferDownloadStart(m)
    \/ \E i \in Parts : bot = NoBot /\ XferDownloaded(i)
    \/ bot = NoBot /\ XferVerifyMerge
    \/ \E f \in BotFiles : xfer = NoTransfer /\ BotPlaceFile(f)
    \/ \E thread_ok \in BOOLEAN : xfer = NoTransfer /\ BotUploadStart(thread_ok)
    \/ \E f \in BotFiles : xfer = NoTransfer /\ BotAcquire(f)
    \/ \E f \in BotFiles, ok \in BOOLEAN, removed \in BOOLEAN, edited \in BOOLEAN :
          xfer = NoTransfer /\ BotSend(f, ok, removed, edited)
    \/ xfer = NoTransfer /\ BotUploadStatus
    \/ \E edited \in BOOLEAN : xfer = NoTransfer /\ BotUploadLog(edited)

SpecTransfer == Init /\ [][NextTransfer]_vars

\* ------------------------------------------------- bytes there and back
\* A byte is a value under the layers of encoding put on it; the bytes a
\* format adds (headers, lengths, tags) carry the name of their role.
Plain(b) == [v |-> b, layers |-> <<>>]

Mark(role, v) == [v |-> v, layers |-> <<role>>]

Wrap(layer, data) ==
    [k \in 1 .. Len(data) |-> [data[k] EXCEPT !.layers = <<layer>> \o @]]

Wrapped(layer, data) ==
    \A k \in 1 .. Len(data) :
       data[k].layers # <<>> /\ Head(data[k].layers) = layer

Unwrap(data) == [k \in 1 .. Len(data) |-> [data[k] EXCEPT !.layers = Tail(@)]]

Inner(data) == SubSeq(data, 2, Len(data) - 1)

ByteSeqs == UNION {[1 .. n -> {Plain(0), Plain(1)}] : n \in 0 .. MaxBytes}

RECURSIVE Flatten(_)
Flatten(seqs) == IF seqs = <<>> THEN <<>> ELSE Head(seqs) \o Flatten(Tail(seqs))

\* while True: chunk = read(size); if not chunk: break.  The lengths of the
\* reads of a file of `total` bytes; read(0) returns b"" at once.
read_sizes(total, size) ==
    IF size = 0 THEN <<>>
    ELSE [k \in 1 .. ((total + size - 1) \div size) |->
            Min({size, total - (k - 1) * size})]

read_chunks(data, size) ==
    LET sizes == read_sizes(Len(data), size)
    IN [k \in 1 .. Len(sizes) |->
          SubSeq(data, (k - 1) * size + 1, (k - 1) * size + sizes[k])]

\* gzip.compress / the tar.gz archive: header, deflated bytes, trailer (ISIZE).
compress_data(data) ==
    <<Mark("gzip header", 0)>> \o Wrap("gzip", data)
       \o <<Mark("gzip trailer", Len(data))>>

decompress_data(data) ==
    IF /\ Len(data) >= 2
       /\ data[1] = Mark("gzip header", 0)
       /\ data[Len(data)] = Mark("gzip trailer", Len(data) - 2)
       /\ Wrapped("gzip", Inner(data))
    THEN [ok |-> TRUE, bytes |-> Unwrap(Inner(data))]
    ELSE [ok |-> FALSE, bytes |-> <<>>]

\* Data encrypted under a key: only that key takes the layer off.
Encrypted(cipher, key, data) == Wrap(cipher, Wrap(key, data))

Decryptable(cipher, key, data) ==
    \A k \in 1 .. Len(data) :
       /\ Len(data[k].layers) >= 2
       /\ data[k].layers[1] = cipher /\ data[k].layers[2] = key

Decrypted(data) == Unwrap(Unwrap(data))

\* The authentication tag a cipher computes with the key over the data.
Mac(role, key, v) == [v |-> v, layers |-> <<role, key>>]

\* The key the CLI derives from config.encryption_key and the batch's salt,
\* the password the bot reads from USER_KEY; and any other one.
encryption_key == "key"
other_key == "other key"

\* core/crypto.py: salt + nonce + ciphertext (AES-256-GCM, with its tag).
encrypt_data(data, password) ==
    <<Mark("salt", 0), Mark("nonce", 0)>> \o Encrypted("aesgcm", password, data)
       \o <<Mac("gcm tag", password, Len(data))>>

\* decrypt_data: len(data) < 28 (salt and nonce) is too short; aesgcm.decrypt
\* raises when the tag does not verify under the derived key.
decrypt_data(data, password) ==
    IF Len(data) < 2
    THEN [ok |-> FALSE, bytes |-> <<>>, error |-> "Data too short to be encrypted."]
    ELSE IF /\ Len(data) >= 3
            /\ data[1] = Mark("salt", 0) /\ data[2] = Mark("nonce", 0)
            /\ data[Len(data)] = Mac("gcm tag", password, Len(data) - 3)
            /\ Decryptable("aesgcm", password, SubSeq(data, 3, Len(data) - 1))
    THEN [ok |-> TRUE, bytes |-> Decrypted(SubSeq(data, 3, Len(data) - 1)), error |-> ""]
    ELSE [ok |-> FALSE, bytes |-> <<>>,
          error |-> "Decryption failed. Wrong password or corrupted data."]

\* Fernet(key).encrypt / decrypt: a token with its HMAC; decrypt raises
\* InvalidToken when the token does not verify under the key.
fernet_encrypt(data, key) ==
    <<Mark("fernet iv", 0)>> \o Encrypted("fernet", key, data)
       \o <<Mac("fernet hmac", key, Len(data))>>

fernet_decrypt(token, key) ==
    IF /\ Len(token) >= 2
       /\ token[1] = Mark("fernet iv", 0)
       /\ token[Len(token)] = Mac("fernet hmac", key, Len(token) - 2)
       /\ Decryptable("fernet", key, Inner(token))
    THEN [ok |-> TRUE, bytes |-> Decrypted(Inner(token))]
    ELSE [ok |-> FALSE, bytes |-> <<>>]

\* len(encrypted).to_bytes(8, "big") and int.from_bytes(size_bytes, "big"),
\* the eight bytes of the length drawn as two; from_bytes takes as many bytes
\* as the read returned.
LengthBytes == 2

to_bytes(n) == <<Mark("length", n \div 256), Mark("length", n % 256)>>

from_bytes(size_bytes) ==
    IF Len(size_bytes) = 1 THEN size_bytes[1].v
    ELSE size_bytes[1].v * 256 + size_bytes[2].v

\* encrypt_file: for each buffer read, the token's length then the token.
encrypt_file(data, buffer_size, key) ==
    LET reads == read_chunks(data, buffer_size)
    IN Flatten([k \in 1 .. Len(reads) |->
                  to_bytes(Len(reads[k]) + 2) \o fernet_encrypt(reads[k], key)])

\* decrypt_file: read the length, read that many bytes, decrypt, write; the
\* error raised (none: "") and the bytes written to output_path until then.
\* The EncryptionError raised inside the try for a short read is caught by
\* `except Exception` and raised again as "Failed to decrypt file.".
RECURSIVE decrypt_file(_, _)
decrypt_file(data, key) ==
    IF data = <<>> THEN [error |-> "", bytes |-> <<>>]
    ELSE LET size_bytes == SubSeq(data, 1, Min({LengthBytes, Len(data)}))
             chunk_size == from_bytes(size_bytes)
             after_size == SubSeq(data, Len(size_bytes) + 1, Len(data))
             encrypted == SubSeq(after_size, 1, Min({chunk_size, Len(after_size)}))
             decrypted == fernet_decrypt(encrypted, key)
             rest == decrypt_file(SubSeq(after_size, chunk_size + 1, Len(after_size)), key)
         IN IF Len(encrypted) # chunk_size
            THEN [error |-> "Failed to decrypt file.", bytes |-> <<>>]
            ELSE IF ~decrypted.ok
            THEN [error |-> "Encrypted file integrity check failed.", bytes |-> <<>>]
            ELSE [error |-> rest.error, bytes |-> decrypted.bytes \o rest.bytes]

\* decrypt_chunk: Fernet(key).decrypt(data), InvalidToken as EncryptionError.
decrypt_chunk(data, key) ==
    LET decrypted == fernet_decrypt(data, key)
    IN IF decrypted.ok THEN [error |-> "", bytes |-> decrypted.bytes]
       ELSE [error |-> "Encrypted chunk integrity check failed.", bytes |-> <<>>]

\* from .config import MAX_CHUNK_SIZE_CAP: the cap split_file applies
\* ("Chunk size capped at ... bytes (<10 MB)"), 9.5 MiB.
MAX_CHUNK_SIZE_CAP == 9961472

\* if chunk_size > MAX_CHUNK_SIZE_CAP: warnings.warn(...); chunk_size = cap.
capped_chunk_size(chunk_size) ==
    IF chunk_size > MAX_CHUNK_SIZE_CAP THEN MAX_CHUNK_SIZE_CAP ELSE chunk_size

\* split_file: the chunk files <name>.part<index>, in index order.
split_file(data, chunk_size) == read_chunks(data, capped_chunk_size(chunk_size))

\* merge_chunks: the chunk files written one after the other.
merge_chunks(chunk_paths) == Flatten(chunk_paths)

\* slice_folder on one file: every read of chunk_size bytes (one empty read
\* for an empty file) is compressed, encrypted and written as a chunk file.
SliceFolder ==
    /\ rt.kind = "slice" /\ rt.stage = "input"
    /\ LET raw == IF rt.original = <<>> THEN << <<>> >>
                  ELSE read_chunks(rt.original, rt.chunk_size)
       IN rt' = [rt EXCEPT
                   !.stage = "stored",
                   !.parts = [k \in 1 .. Len(raw) |->
                                encrypt_data(compress_data(raw[k]), encryption_key)]]
    /\ UNCHANGED <<lg, pg, asm, pool, mf, dc, sp, xfer, bot, first, batches, chunks, files, threads, index_channel, plain_posted,
                   temp, op, workers, results, sync, dl, uc, ops>>

\* assemble_from_manifest, per-chunk encryption: each chunk in index order
\* is decrypted, decompressed and written to the target file.
AssembleFromManifest ==
    /\ rt.kind = "slice" /\ rt.stage = "stored"
    /\ LET decrypted == [k \in 1 .. Len(rt.parts) |->
                          decrypt_data(rt.parts[k], encryption_key)]
           original_chunk == [k \in 1 .. Len(rt.parts) |->
                                decompress_data(decrypted[k].bytes)]
           ok == \A k \in 1 .. Len(rt.parts) :
                    decrypted[k].ok /\ original_chunk[k].ok
       IN rt' = IF ok
                THEN [rt EXCEPT
                        !.stage = "restored",
                        !.restored = Flatten([k \in 1 .. Len(rt.parts) |->
                                                original_chunk[k].bytes])]
                ELSE [rt EXCEPT !.stage = "raised",
                                !.error = "Error reassembling chunks"]
    /\ UNCHANGED <<lg, pg, asm, pool, mf, dc, sp, xfer, bot, first, batches, chunks, files, threads, index_channel, plain_posted,
                   temp, op, workers, results, sync, dl, uc, ops>>

\* A path of the temporary directory: whether the file is there, and its bytes.
NotWritten == [exists |-> FALSE, bytes |-> <<>>]

Written(bytes) == [exists |-> TRUE, bytes |-> bytes]

\* asyncio.to_thread(func, ...) where func is a coroutine function: the call
\* made in the worker thread only creates the coroutine object, to_thread
\* returns it, and the body of func never runs.
to_thread_coroutine(written) == NotWritten

\* _prepare_chunks: create_archive, encrypt_file (an `async def`, handed to
\* asyncio.to_thread), split_file, whose file_path.stat() raises
\* FileNotFoundError when the encrypted file is not there.
PrepareChunks ==
    /\ rt.kind = "upload" /\ rt.stage = "input"
    /\ LET archive_path == Written(compress_data(rt.original))
           encrypted_path ==
               to_thread_coroutine(
                   Written(encrypt_file(archive_path.bytes, rt.buffer_size,
                                        encryption_key)))
       IN rt' = IF encrypted_path.exists
                THEN [rt EXCEPT
                        !.stage = "stored",
                        !.parts = split_file(encrypted_path.bytes, rt.chunk_size)]
                ELSE [rt EXCEPT !.stage = "raised",
                                !.error = "FileNotFoundError"]
    /\ UNCHANGED <<lg, pg, asm, pool, mf, dc, sp, xfer, bot, first, batches, chunks, files, threads, index_channel, plain_posted,
                   temp, op, workers, results, sync, dl, uc, ops>>

\* download(): merge_chunks, decrypt_file, extract_archive.
RestoreDownload ==
    /\ rt.kind \in {"upload", "download"} /\ rt.stage = "stored"
    /\ LET decrypted == decrypt_file(merge_chunks(rt.parts), encryption_key)
           extracted == decompress_data(decrypted.bytes)
       IN rt' = IF decrypted.error = "" /\ extracted.ok
                THEN [rt EXCEPT !.stage = "restored",
                                !.restored = extracted.bytes]
                ELSE [rt EXCEPT !.stage = "raised",
                                !.error = IF decrypted.error = ""
                                          THEN "Failed to extract archive."
                                          ELSE decrypted.error]
    /\ UNCHANGED <<lg, pg, asm, pool, mf, dc, sp, xfer, bot, first, batches, chunks, files, threads, index_channel, plain_posted,
                   temp, op, workers, results, sync, dl, uc, ops>>

\* The chunks of a batch as they lie in its thread: an archive encrypted in
\* encrypt_file's format and cut by split_file.
ChunksOf(original, buffer_size, chunk_size) ==
    split_file(encrypt_file(compress_data(original), buffer_size, encryption_key),
               chunk_size)

\* A file to slice, a path to upload, or a stored batch to download.
InitRoundTrip ==
    /\ batches = {} /\ chunks = {} /\ files = {}
    /\ threads = [t \in ThreadIds |-> NoThread]
    /\ index_channel = <<>>
    /\ plain_posted = 0
    /\ temp = [b \in BatchIds |-> 0]
    /\ op = Idle
    /\ workers = [i \in Indexes |-> "none"]
    /\ results = [i \in Indexes |-> 0]
    /\ sync = NoSync
    /\ dl = NoDownload
    /\ uc = NoCall
    /\ ops = 0
    /\ first = NoSnapshot
    /\ bot = NoBot
    /\ xfer = NoTransfer
    /\ sp = NoSplit
    /\ dc = NoDecrypt
    /\ rt \in {[NoRoundTrip EXCEPT
                   !.kind = kind,
                   !.stage = IF kind = "download" THEN "stored" ELSE "input",
                   !.original = original,
                   !.chunk_size = chunk_size,
                   !.buffer_size = buffer_size,
                   !.parts = IF kind = "download"
                             THEN ChunksOf(original, buffer_size, chunk_size)
                             ELSE <<>>] :
                  kind \in {"slice", "upload", "download"},
                  original \in ByteSeqs,
                  chunk_size \in 1 .. MaxChunkSize,
                  buffer_size \in 1 .. MaxBufferSize}
    /\ mf = NoManifests
    /\ pool = NoPool
    /\ asm = NoAssemble
    /\ pg = NoProgress
    /\ lg = NoLog

NextRoundTrip ==
    \/ SliceFolder
    \/ AssembleFromManifest
    \/ PrepareChunks
    \/ RestoreDownload

SpecRoundTrip == InitRoundTrip /\ [][NextRoundTrip]_vars

\* ------------------------------------------------- splitting, by sizes
\* gzip.compress: a 10-byte header, the deflate stream, CRC32 and ISIZE.
gzip_len(deflated) == 10 + deflated + 8

\* The length of the deflate stream of n bytes depends on their values: at
\* best about 1032 bytes to one, at worst the n bytes stored behind a block
\* header.
deflate_len(n, incompressible) ==
    IF n = 0 THEN 2
    ELSE IF incompressible THEN n + 2
    ELSE n \div 1032 + 3

\* encrypt_data: salt (16) + nonce (12) + ciphertext with the 16-byte GCM tag.
encrypt_data_len(n) == 16 + 12 + n + 16

\* chunk_size = int(chunk_size_mb * 1024 * 1024), chunk_size_mb in tenths.
slice_chunk_size(tenths_of_mb) == (tenths_of_mb * 1024 * 1024) \div 10

\* DEFAULT_CHUNK_SIZE_MB = 9.5, in tenths.
DEFAULT_CHUNK_SIZE_MB == 95

Totals ==
    {0, 1} \cup {k * MAX_CHUNK_SIZE_CAP + d : k \in 1 .. MaxWholeChunks, d \in {-1, 0, 1}}

SplitRequests ==
    {0, MAX_CHUNK_SIZE_CAP \div 2, MAX_CHUNK_SIZE_CAP - 1, MAX_CHUNK_SIZE_CAP,
     MAX_CHUNK_SIZE_CAP + 1, 2 * MAX_CHUNK_SIZE_CAP}

SliceRequests == {0, 50, DEFAULT_CHUNK_SIZE_MB, 100, 200}

\* split_file(file_path, chunk_size) on a file of sp.total bytes: the sizes
\* of the .part files it writes.
SplitFile ==
    /\ sp.kind = "split_file" /\ sp.pc = "call"
    /\ sp' = IF sp.chunk_size <= 0
             THEN [sp EXCEPT !.pc = "raised",
                             !.error = "Chunk size must be greater than 0."]
             ELSE LET sizes == read_sizes(sp.total, capped_chunk_size(sp.chunk_size))
                  IN [sp EXCEPT !.pc = "done",
                                !.warned = sp.chunk_size > MAX_CHUNK_SIZE_CAP,
                                !.reads = sizes,
                                !.sizes = sizes]
    /\ UNCHANGED <<lg, pg, asm, pool, mf, dc, rt, xfer, bot, first, batches, chunks, files, threads, index_channel,
                   plain_posted, temp, op, workers, results, sync, dl, uc, ops>>

\* slice_folder on one file of sp.total bytes: every read of chunk_size bytes
\* (one empty chunk when file_size == 0) is compressed and encrypted; the
\* sizes of the .bin files it writes.
SliceFile(incompressible) ==
    /\ sp.kind = "slice_folder" /\ sp.pc = "call"
    /\ LET in_loop == read_sizes(sp.total, sp.chunk_size)
           reads == IF sp.total = 0 THEN in_loop \o <<0>> ELSE in_loop
       IN sp' = [sp EXCEPT
                   !.pc = "done",
                   !.reads = reads,
                   !.sizes = [k \in 1 .. Len(reads) |->
                                encrypt_data_len(
                                  gzip_len(deflate_len(reads[k], incompressible)))]]
    /\ UNCHANGED <<lg, pg, asm, pool, mf, dc, rt, xfer, bot, first, batches, chunks, files, threads, index_channel,
                   plain_posted, temp, op, workers, results, sync, dl, uc, ops>>

\* A file and a chunk size given to split_file or to slice_folder.
InitSplit ==
    /\ batches = {} /\ chunks = {} /\ files = {}
    /\ threads = [t \in ThreadIds |-> NoThread]
    /\ index_channel = <<>>
    /\ plain_posted = 0
    /\ temp = [b \in BatchIds |-> 0]
    /\ op = Idle
    /\ workers = [i \in Indexes |-> "none"]
    /\ results = [i \in Indexes |-> 0]
    /\ sync = NoSync
    /\ dl = NoDownload
    /\ uc = NoCall
    /\ ops = 0
    /\ first = NoSnapshot
    /\ bot = NoBot
    /\ xfer = NoTransfer
    /\ rt = NoRoundTrip
    /\ dc = NoDecrypt
    /\ sp \in {[NoSplit EXCEPT !.kind = "split_file", !.pc = "call",
                                !.total = total, !.chunk_size = chunk_size] :
                  total \in Totals, chunk_size \in SplitRequests}
              \cup
              {[NoSplit EXCEPT !.kind = "slice_folder", !.pc = "call",
                                !.total = total,
                                !.chunk_size = slice_chunk_size(chunk_size_mb)] :
                  total \in Totals, chunk_size_mb \in SliceRequests}
    /\ mf = NoManifests
    /\ pool = NoPool
    /\ asm = NoAssemble
    /\ pg = NoProgress
    /\ lg = NoLog

NextSplit ==
    \/ SplitFile
    \/ \E incompressible \in BOOLEAN : SliceFile(incompressible)

SpecSplit == InitSplit /\ [][NextSplit]_vars

\* ------------------------------------------------- decryption failures
\* What each decryption routine is given, and what it raises and leaves.
Encrypt(kind, data, buffer_size, key) ==
    CASE kind = "decrypt_file" -> encrypt_file(data, buffer_size, key)
      [] kind = "decrypt_chunk" -> fernet_encrypt(data, key)
      [] kind = "decrypt_data" -> encrypt_data(data, key)

Decrypt(kind, data, key) ==
    CASE kind = "decrypt_file" -> decrypt_file(data, key)
      [] kind = "decrypt_chunk" -> decrypt_chunk(data, key)
      [] kind = "decrypt_data" ->
            LET decrypted == decrypt_data(data, key)
            IN [error |-> decrypted.error, bytes |-> decrypted.bytes]

\* One byte of the ciphertext changed on the way.
Tamper(data, k) ==
    [data EXCEPT ![k] = [v |-> @.v, layers |-> <<"tampered">> \o @.layers]]

\* The bytes of a ciphertext under authentication: all but the lengths
\* encrypt_file writes between its tokens.
Authenticated(data) == {k \in 1 .. Len(data) : data[k].layers # <<"length">>}

Decrypting(case, data, key) ==
    /\ dc.outcome[case].pc = "pending"
    /\ LET result == Decrypt(dc.kind, data, key)
       IN dc' = [dc EXCEPT !.outcome[case] =
                    [pc |-> "done", error |-> result.error, bytes |-> result.bytes]]
    /\ UNCHANGED <<lg, pg, asm, pool, mf, sp, rt, xfer, bot, first, batches, chunks, files, threads, index_channel,
                   plain_posted, temp, op, workers, results, sync, dl, uc, ops>>

DecryptIntact ==
    /\ dc.kind # "none"
    /\ Decrypting("intact", dc.ciphertext, encryption_key)

DecryptWrongKey ==
    /\ dc.kind # "none"
    /\ Decrypting("wrong key", dc.ciphertext, other_key)

DecryptTampered(k) ==
    /\ dc.kind # "none"
    /\ k \in Authenticated(dc.ciphertext)
    /\ Decrypting("tampered", Tamper(dc.ciphertext, k), encryption_key)

DecryptTruncated(n) ==
    /\ dc.kind # "none"
    /\ n < Len(dc.ciphertext)
    /\ Decrypting("truncated", SubSeq(dc.ciphertext, 1, n), encryption_key)

\* Some bytes encrypted under encryption_key by one of the three routines.
InitDecrypt ==
    /\ batches = {} /\ chunks = {} /\ files = {}
    /\ threads = [t \in ThreadIds |-> NoThread]
    /\ index_channel = <<>>
    /\ plain_posted = 0
    /\ temp = [b \in BatchIds |-> 0]
    /\ op = Idle
    /\ workers = [i \in Indexes |-> "none"]
    /\ results = [i \in Indexes |-> 0]
    /\ sync = NoSync
    /\ dl = NoDownload
    /\ uc = NoCall
    /\ ops = 0
    /\ first = NoSnapshot
    /\ bot = NoBot
    /\ xfer = NoTransfer
    /\ rt = NoRoundTrip
    /\ sp = NoSplit
    /\ dc \in {[NoDecrypt EXCEPT
                   !.kind = kind,
                   !.original = original,
                   !.buffer_size = buffer_size,
                   !.ciphertext = Encrypt(kind, original, buffer_size, encryption_key)] :
                  kind \in {"decrypt_file", "decrypt_chunk", "decrypt_data"},
                  original \in ByteSeqs,
                  buffer_size \in 1 .. MaxBufferSize}
    /\ mf = NoManifests
    /\ pool = NoPool
    /\ asm = NoAssemble
    /\ pg = NoProgress
    /\ lg = NoLog

NextDecrypt ==
    \/ DecryptIntact
    \/ DecryptWrongKey
    \/ \E k \in 1 .. (3 * MaxBytes + 4) : DecryptTampered(k)
    \/ \E n \in 0 .. (3 * MaxBytes + 4) : DecryptTruncated(n)

SpecDecrypt == InitDecrypt /\ [][NextDecrypt]_vars

\* ------------------------------------------------- delete on its own
\* What the tables and the host hold for a batch that was uploaded whole: n
\* chunk rows, file rows for its files, the thread with its parts unless
\* it was removed on the host, the card unless it was removed on the host.
StoredBatch(b, n) ==
    [batch_id |-> b, chunk_count |-> n, status |-> "complete",
     encryption_salt |-> "salt",
     archive_message_id |-> [kind |-> "card", n |-> 0, of |-> b],
     thread_id |-> b]

StoredThread(n, state) ==
    IF state = "live"
    THEN [state |-> "live", meta |-> n, att |-> [i \in Indexes |-> IF i < n THEN 1 ELSE 0]]
    ELSE [NoThread EXCEPT !.state = state]

Holdings ==
    {[n |-> 0, thread |-> "none", card |-> FALSE, file_rows |-> FALSE]}
       \cup [n : 1 .. MaxChunks, thread : {"live", "deleted"}, card : BOOLEAN,
             file_rows : BOOLEAN]

InitDelete ==
    /\ \E held \in [BatchIds -> Holdings] :
          LET present == {b \in BatchIds : held[b].n > 0}
              cards == [b \in BatchIds |->
                          IF held[b].card
                          THEN <<create_archive_card(b, b, held[b].n)>> ELSE <<>>]
          IN /\ batches = {StoredBatch(b, held[b].n) : b \in present}
             /\ chunks = UNION {{ChunkRow(b, b, i, 1, Sha256(Data(b, i))) :
                                   i \in 0 .. (held[b].n - 1)} : b \in present}
             /\ files = {[file_id |-> <<b, 0>>, batch_id |-> b] :
                           b \in {x \in present : held[x].file_rows}}
             /\ threads = [b \in ThreadIds |-> StoredThread(held[b].n, held[b].thread)]
             /\ index_channel = cards["b1"] \o cards["b2"]
    /\ plain_posted = 0
    /\ temp = [b \in BatchIds |-> 0]
    /\ op = Idle
    /\ workers = [i \in Indexes |-> "none"]
    /\ results = [i \in Indexes |-> 0]
    /\ sync = NoSync
    /\ dl = NoDownload
    /\ uc = NoCall
    /\ ops = 0
    /\ first = NoSnapshot
    /\ bot = NoBot
    /\ xfer = NoTransfer
    /\ rt = NoRoundTrip
    /\ sp = NoSplit
    /\ dc = NoDecrypt
    /\ mf = NoManifests
    /\ pool = NoPool
    /\ asm = NoAssemble
    /\ pg = NoProgress
    /\ lg = NoLog

NextDelete ==
    \/ \E b \in BatchIds, remote \in BOOLEAN,
          outcome \in {"ok", "thread_error", "card_error"} :
             DeleteFromDiscord(b, remote, outcome)
    \/ DeleteBatch

SpecDelete == InitDelete /\ [][NextDelete]_vars

\* ------------------------------------------------- the connection pool
\* ConnectionPool of one database path, called from several threads.
\* pool.queue is the number of connections in self._queue, pool.open the
\* number of connections created and not closed, pool.count_lock the thread
\* inside `with self._count_lock` (0: nobody).  A thread is "idle" before
\* get_connection, at "count_lock" after a failed get_nowait, in "get" inside
\* queue.get(block=True, timeout=30), at "create" before _create_connection,
\* "using" in the body of get_connection, then "done" or "Empty".
never_full(active_count) == FALSE

\* if self._active_count >= self.maxsize
at_maxsize(active_count) == active_count >= maxsize

InUse == {c \in Callers : pool.pc[c] = "using"}

\* pool.acquire(), first statement: return self._queue.get_nowait().  The
\* threads are numbered in the order in which they call.
PoolAcquire(c) ==
    /\ pool.pc[c] = "idle"
    /\ \A d \in 1 .. (c - 1) : pool.pc[d] # "idle"
    /\ pool' = IF pool.queue > 0
               THEN [pool EXCEPT !.queue = @ - 1, !.pc[c] = "using"]
               ELSE [pool EXCEPT !.pc[c] = "count_lock"]
    /\ UNCHANGED <<lg, pg, asm, mf, dc, sp, rt, xfer, bot, first, batches, chunks, files, threads, index_channel, plain_posted, temp, op, workers, results, sync, dl, uc, ops>>

\* except Exception: with self._count_lock: either enter queue.get with the
\* lock held, or count the new connection and leave the lock.
PoolCountLock(c) ==
    /\ pool.pc[c] = "count_lock"
    /\ pool.count_lock = 0
    /\ pool' = IF at_maxsize(pool.active_count)
               THEN [pool EXCEPT !.count_lock = c, !.pc[c] = "get", !.get_waited = 0]
               ELSE [pool EXCEPT !.active_count = @ + 1, !.pc[c] = "create"]
    /\ UNCHANGED <<lg, pg, asm, mf, dc, sp, rt, xfer, bot, first, batches, chunks, files, threads, index_channel, plain_posted, temp, op, workers, results, sync, dl, uc, ops>>

\* return self._create_connection()
PoolCreate(c) ==
    /\ pool.pc[c] = "create"
    /\ pool' = [pool EXCEPT !.open = @ + 1, !.pc[c] = "using"]
    /\ UNCHANGED <<lg, pg, asm, mf, dc, sp, rt, xfer, bot, first, batches, chunks, files, threads, index_channel, plain_posted, temp, op, workers, results, sync, dl, uc, ops>>

\* return self._create_connection(), where sqlite3.connect or a PRAGMA raises
\* sqlite3.Error: the exception leaves acquire() and get_connection, no
\* connection exists, and self._active_count keeps the one counted for it.
PoolCreateFails(c) ==
    /\ pool.pc[c] = "create"
    /\ pool' = [pool EXCEPT !.pc[c] = "Error"]
    /\ UNCHANGED <<lg, pg, asm, mf, dc, sp, rt, xfer, bot, first, batches, chunks, files, threads, index_channel, plain_posted, temp, op, workers, results, sync, dl, uc, ops>>

\* queue.get(block=True, timeout=30) returns a connection put by a release.
PoolGet(c) ==
    /\ pool.pc[c] = "get"
    /\ pool.queue > 0
    /\ pool' = [pool EXCEPT !.queue = @ - 1, !.count_lock = 0, !.pc[c] = "using"]
    /\ UNCHANGED <<lg, pg, asm, mf, dc, sp, rt, xfer, bot, first, batches, chunks, files, threads, index_channel, plain_posted, temp, op, workers, results, sync, dl, uc, ops>>

\* queue.get(block=True, timeout=30) raises queue.Empty when the timeout has
\* passed; acquire() is called before the try of get_connection, so the
\* exception leaves get_connection as it is.
PoolGetTimeout(c) ==
    /\ pool.pc[c] = "get"
    /\ pool.queue = 0
    /\ pool.get_waited = GetTimeout
    /\ pool' = [pool EXCEPT !.count_lock = 0, !.pc[c] = "Empty"]
    /\ UNCHANGED <<lg, pg, asm, mf, dc, sp, rt, xfer, bot, first, batches, chunks, files, threads, index_channel, plain_posted, temp, op, workers, results, sync, dl, uc, ops>>

\* The body of get_connection ends (commit, or rollback and DatabaseError);
\* finally: pool.release(conn): put_nowait, and when the queue is full the
\* connection is uncounted under the lock and closed.
PoolRelease(c) ==
    /\ pool.pc[c] = "using"
    /\ pool.queue < maxsize \/ pool.count_lock = 0
    /\ pool' = IF pool.queue < maxsize
               THEN [pool EXCEPT !.queue = @ + 1, !.pc[c] = "done"]
               ELSE [pool EXCEPT !.active_count = @ - 1, !.open = @ - 1,
                                 !.pc[c] = "done"]
    /\ UNCHANGED <<lg, pg, asm, mf, dc, sp, rt, xfer, bot, first, batches, chunks, files, threads, index_channel, plain_posted, temp, op, workers, results, sync, dl, uc, ops>>

\* Time passes while a thread is inside queue.get on an empty queue, until the
\* timeout; the threads in queue.get and at the lock have waited one tick
\* more.  Every other step of the pool takes no time.
PoolTick ==
    /\ \E c \in Callers : pool.pc[c] = "get"
    /\ pool.queue = 0
    /\ pool.get_waited < GetTimeout
    /\ pool' = [pool EXCEPT
                  !.get_waited = @ + 1,
                  !.waited = [c \in Callers |->
                                 IF pool.pc[c] \in {"count_lock", "get"}
                                 THEN @[c] + 1 ELSE @[c]]]
    /\ UNCHANGED <<lg, pg, asm, mf, dc, sp, rt, xfer, bot, first, batches, chunks, files, threads, index_channel, plain_posted, temp, op, workers, results, sync, dl, uc, ops>>

NextPool ==
    \/ \E c \in Callers : PoolAcquire(c)
    \/ \E c \in Callers : PoolCountLock(c)
    \/ \E c \in Callers : PoolCreate(c)
    \/ \E c \in Callers : PoolCreateFails(c)
    \/ \E c \in Callers : PoolGet(c)
    \/ \E c \in Callers : PoolGetTimeout(c)
    \/ \E c \in Callers : PoolRelease(c)
    \/ PoolTick

SpecPool == Init /\ [][NextPool]_vars

\* ------------------------------------------------- saving manifests
\* mf.dir is output_dir: a set of files [name, content].  A file name
\* "<total_chunks>-manifest_<HHMMSS>_<DDMMYY>.json" is the record of its
\* fields with suffix 0, and "<stem>_<counter>.json" the same with suffix
\* counter.  mf.total_chunks, mf.now and mf.path are the arguments and the
\* result of the last save_manifest.
\* now.strftime("%H%M%S"), now.strftime("%d%m%y"): the instant to the second.
strftime(now) == now \div InstantsPerSecond

\* f"{total_chunks}-manifest_{time_part}_{date_part}.json"
build_manifest_name(total_chunks, timestamp) ==
    [total_chunks |-> total_chunks, time_part |-> strftime(timestamp), suffix |-> 0]

\* f"{stem}_{counter}.json", stem being base_manifest_name[:-5]
suffixed_name(base_manifest_name, counter) ==
    [base_manifest_name EXCEPT !.suffix = counter]

path_never_exists(dir, manifest_name) == FALSE

\* manifest_path.exists()
path_exists(dir, manifest_name) == \E f \in dir : f.name = manifest_name

\* counter = 1; while manifest_path.exists(): manifest_name =
\* f"{stem}_{counter}.json"; counter += 1
RECURSIVE free_manifest_path(_, _, _, _)
free_manifest_path(dir, base_manifest_name, manifest_name, counter) ==
    IF path_exists(dir, manifest_name)
    THEN free_manifest_path(dir, base_manifest_name,
                            suffixed_name(base_manifest_name, counter), counter + 1)
    ELSE manifest_name

\* with open(manifest_path, "w") as f: json.dump(manifest, f, indent=4)
write_file(dir, path, content) ==
    {f \in dir : f.name # path} \cup {[name |-> path, content |-> content]}

\* save_manifest(manifest, output_dir, total_chunks) at the instant now; the
\* manifest of the n-th call is told apart by n.
SaveManifest(total_chunks, now) ==
    /\ mf.saves < MaxSaves
    /\ LET base_manifest_name == build_manifest_name(total_chunks, now)
           manifest_path == free_manifest_path(mf.dir, base_manifest_name,
                                               base_manifest_name, 1)
       IN mf' = [dir |-> write_file(mf.dir, manifest_path, mf.saves + 1),
                 saves |-> mf.saves + 1,
                 total_chunks |-> total_chunks, now |-> now,
                 path |-> manifest_path]
    /\ UNCHANGED <<lg, pg, asm, pool, dc, sp, rt, xfer, bot, first, batches, chunks, files, threads, index_channel, plain_posted, temp, op, workers, results, sync, dl, uc, ops>>

\* The files the output directory may hold before the first call: manifests
\* of one chunk saved in second 0, under any of the names save_manifest
\* gives.
FoundNames == {suffixed_name(build_manifest_name(1, 0), k) : k \in 0 .. MaxSuffix}

InitManifest ==
    /\ Init!1 /\ Init!2 /\ Init!3
    /\ threads = [t \in ThreadIds |-> NoThread]
    /\ index_channel = <<>>
    /\ plain_posted = 0
    /\ temp = [b \in BatchIds |-> 0]
    /\ op = Idle
    /\ workers = [i \in Indexes |-> "none"]
    /\ results = [i \in Indexes |-> 0]
    /\ sync = NoSync
    /\ dl = NoDownload
    /\ uc = NoCall
    /\ ops = 0
    /\ first = NoSnapshot
    /\ bot = NoBot
    /\ xfer = NoTransfer
    /\ rt = NoRoundTrip
    /\ sp = NoSplit
    /\ dc = NoDecrypt
    /\ pool = NoPool
    /\ \E found \in SUBSET FoundNames :
          mf = [NoManifests EXCEPT
                  !.dir = {[name |-> n, content |-> 0] : n \in found}]
    /\ asm = NoAssemble
    /\ pg = NoProgress
    /\ lg = NoLog

NextManifest ==
    \E total_chunks \in 1 .. MaxChunks, now \in 0 .. MaxInstant :
       SaveManifest(total_chunks, now)

SpecManifest == InitManifest /\ [][NextManifest]_vars

\* ------------------------------------------------- assemble_from_manifest
\* asm.manifests are the manifest files of the chunks folder: name, st_mtime,
\* "source_folder", how the archive is encrypted ("chunk": per chunk, "file":
\* as a whole, "plain": not at all), and the entry of its one file "f": the
\* chunk names in index order and "original_size".  asm.store tells for each
\* chunk name whether the chunk file is in the folder and intact: an intact
\* chunk k restores to the one byte k, a corrupt one fails decrypt_data or
\* decompress_data.  asm.output is the restored files, [path, bytes].
ChunkNames == 1 .. MaxChunks

ManifestKinds == {"chunk", "file", "plain"}

ManifestFiles ==
    [name : 1 .. MaxManifests, mtime : 1 .. MaxManifests,
     source_folder : {"", "a"}, kind : ManifestKinds,
     chunks : {<<c>> : c \in ChunkNames} \cup {<<1, 2>>},
     original_size : 1 .. 2]

\* sorted(unique_paths.values(), key=lambda path: path.stat().st_mtime,
\* reverse=True): the orders of the manifests that are newest first.
NewestFirst(manifests) ==
    {order \in [1 .. Cardinality(manifests) -> manifests] :
        /\ \A i, j \in DOMAIN order : i # j => order[i] # order[j]
        /\ \A i, j \in DOMAIN order : i < j => order[i].mtime >= order[j].mtime}

\* _resolve_output_dir(base_dir, manifest, manifest_path, manifest_count)
resolve_output_dir(manifest, manifest_count) ==
    IF manifest.source_folder # "" THEN <<"base", manifest.source_folder>>
    ELSE IF manifest_count > 1 THEN <<"base", "restored", manifest.name>>
    ELSE <<"base">>

\* _assemble_per_chunk_encryption: the target is opened "wb", then each chunk
\* is read, decrypted, decompressed and written; the first missing or corrupt
\* chunk ends it with False, the bytes written so far staying in the target.
RECURSIVE per_chunk(_, _, _)
per_chunk(chunk_entries, store, written) ==
    IF chunk_entries = <<>> THEN [success |-> TRUE, opened |-> TRUE, bytes |-> written]
    ELSE IF store[Head(chunk_entries)] # "intact"
    THEN [success |-> FALSE, opened |-> TRUE, bytes |-> written]
    ELSE per_chunk(Tail(chunk_entries), store, Append(written, Head(chunk_entries)))

\* _assemble_file_encryption: all chunks are read (a missing one returns
\* False), the whole is decrypted and decompressed (encrypted), or
\* decompressed, or taken as it is (not encrypted), then written.  A corrupt
\* chunk reads as the byte -k.
assemble_file(chunk_entries, store, kind) ==
    IF \E k \in DOMAIN chunk_entries : store[chunk_entries[k]] = "missing"
    THEN [success |-> FALSE, opened |-> FALSE, bytes |-> <<>>]
    ELSE IF kind = "file" /\ \E k \in DOMAIN chunk_entries : store[chunk_entries[k]] # "intact"
    THEN [success |-> FALSE, opened |-> FALSE, bytes |-> <<>>]
    ELSE [success |-> TRUE, opened |-> TRUE,
          bytes |-> [k \in DOMAIN chunk_entries |->
                        IF store[chunk_entries[k]] = "intact"
                        THEN chunk_entries[k] ELSE 0 - chunk_entries[k]]]

\* What the loop body does for the file of one manifest.
assemble_entry(manifest, store) ==
    IF manifest.kind = "chunk" THEN per_chunk(manifest.chunks, store, <<>>)
    ELSE assemble_file(manifest.chunks, store, manifest.kind)

\* The bytes the manifest describes: its chunks, intact, in index order.
Described(manifest) == manifest.chunks

\* assemble_from_manifest up to the loop over the manifests.
AssembleStart ==
    /\ asm.pc = "start"
    /\ \E order \in NewestFirst(asm.manifests) :
          asm' = IF asm.manifests = {}
                 THEN [asm EXCEPT !.pc = "done"]
                 ELSE [asm EXCEPT !.pc = "manifests", !.todo = order]
    /\ UNCHANGED <<lg, pg, pool, mf, dc, sp, rt, xfer, bot, first, batches, chunks, files, threads, index_channel, plain_posted, temp, op, workers, results, sync, dl, uc, ops>>

\* One iteration of `for manifest_path in manifest_files`.
AssembleManifest(parse_ok) ==
    /\ asm.pc = "manifests"
    /\ asm.todo # <<>>
    /\ LET manifest == Head(asm.todo)
           target == [dir |-> resolve_output_dir(manifest, Cardinality(asm.manifests)),
                      name |-> "f"]
           done == assemble_entry(manifest, asm.store)
       IN asm' =
            IF ~parse_ok
            THEN [asm EXCEPT !.todo = Tail(@), !.had_errors = TRUE, !.failed = TRUE]
            ELSE IF manifest.kind # "plain" /\ ~asm.password
            THEN [asm EXCEPT !.pc = "done", !.failed = TRUE]
            ELSE [asm EXCEPT
                    !.todo = Tail(@),
                    !.output = IF done.opened
                               THEN {f \in @ : f.path # target}
                                    \cup {[path |-> target, bytes |-> done.bytes]}
                               ELSE @,
                    !.had_errors = @ \/ ~done.success,
                    !.failed = @ \/ ~done.success,
                    !.mismatch = @ \/ (done.success
                                       /\ Len(done.bytes) # manifest.original_size)]
    /\ UNCHANGED <<lg, pg, pool, mf, dc, sp, rt, xfer, bot, first, batches, chunks, files, threads, index_channel, plain_posted, temp, op, workers, results, sync, dl, uc, ops>>

\* if not had_errors: shutil.rmtree(folder), which may raise OSError.
AssembleEnd(removed) ==
    /\ asm.pc = "manifests"
    /\ asm.todo = <<>>
    /\ asm' = [asm EXCEPT !.pc = "done",
                          !.folder = IF ~asm.had_errors /\ removed THEN FALSE ELSE @]
    /\ UNCHANGED <<lg, pg, pool, mf, dc, sp, rt, xfer, bot, first, batches, chunks, files, threads, index_channel, plain_posted, temp, op, workers, results, sync, dl, uc, ops>>

InitAssemble ==
    /\ Init!1 /\ Init!2 /\ Init!3
    /\ threads = [t \in ThreadIds |-> NoThread]
    /\ index_channel = <<>>
    /\ plain_posted = 0
    /\ temp = [b \in BatchIds |-> 0]
    /\ op = Idle
    /\ workers = [i \in Indexes |-> "none"]
    /\ results = [i \in Indexes |-> 0]
    /\ sync = NoSync
    /\ dl = NoDownload
    /\ uc = NoCall
    /\ ops = 0
    /\ first = NoSnapshot
    /\ bot = NoBot
    /\ xfer = NoTransfer
    /\ rt = NoRoundTrip
    /\ sp = NoSplit
    /\ dc = NoDecrypt
    /\ pool = NoPool
    /\ mf = NoManifests
    /\ \E count \in 0 .. MaxManifests :
       \E found \in [1 .. count -> ManifestFiles],
          store \in [ChunkNames -> {"intact", "corrupt", "missing"}],
          password \in BOOLEAN :
          /\ \A i \in 1 .. count : found[i].name = i
          /\ asm = [NoAssemble EXCEPT !.pc = "start",
                                      !.manifests = {found[i] : i \in 1 .. count},
                                      !.store = store, !.password = password,
                                      !.folder = TRUE]
    /\ pg = NoProgress
    /\ lg = NoLog

NextAssemble ==
    \/ AssembleStart
    \/ \E parse_ok \in BOOLEAN : AssembleManifest(parse_ok)
    \/ \E removed \in BOOLEAN : AssembleEnd(removed)

SpecAssemble == InitAssemble /\ [][NextAssemble]_vars

\* ------------------------------------------- the progress card of !upload
\* pg is one run of the upload command from `last_edit = 0.0` on.  pg.w[f]
\* is where the task upload_chunk(f) stands: "pending" before the semaphore,
\* "sending" in thread.send, "ok_wait" / "failed_wait" before upload_lock,
\* "editing" inside update_archive_card with the lock held, "done".
\* pg.clock is time.monotonic() in tenths of a second, pg.now the `now` of
\* the task holding the lock, pg.calls the calls of update_archive_card,
\* pg.edits those that succeeded, pg.edit_at the `now` of the last of them
\* and pg.gap the time between the last two.
Sending == {f \in CardChunks : pg.w[f] \in {"sending", "failed_wait", "failed_editing"}}

lock_ignored(upload_lock) == TRUE

\* async with upload_lock: the lock is free.
lock_free(upload_lock) == upload_lock = 0

always_edit(now, last_edit, completed_count, chunk_count) == TRUE

\* if now - last_edit > ARCHIVE_CARD_UPDATE_RATE_LIMIT
\*    or completed_count == chunk_count
may_edit(now, last_edit, completed_count, chunk_count) ==
    \/ now - last_edit > ARCHIVE_CARD_UPDATE_RATE_LIMIT
    \/ completed_count = chunk_count

\* The upload command up to the gather: the card and the thread exist,
\* chunk_count files are to be sent; time.monotonic() reads boot.
ProgressStart(chunk_count, boot) ==
    /\ pg.pc = "none"
    /\ pg' = [NoProgress EXCEPT
                !.pc = "running", !.chunk_count = chunk_count, !.clock = boot,
                !.w = [f \in CardChunks |->
                          IF f <= chunk_count THEN "pending" ELSE "none"]]
    /\ UNCHANGED <<lg, asm, pool, mf, dc, sp, rt, xfer, bot, first, batches, chunks, files, threads, index_channel, plain_posted, temp, op, workers, results, sync, dl, uc, ops>>

\* upload_chunk: async with semaphore.
ProgressAcquire(f) ==
    /\ pg.pc = "running"
    /\ pg.w[f] = "pending"
    /\ SemaphoreFree(BotConcurrentUploads, Cardinality(Sending))
    /\ pg' = [pg EXCEPT !.w[f] = "sending"]
    /\ UNCHANGED <<lg, asm, pool, mf, dc, sp, rt, xfer, bot, first, batches, chunks, files, threads, index_channel, plain_posted, temp, op, workers, results, sync, dl, uc, ops>>

\* upload_chunk: thread.send returns (the semaphore is left) or raises (the
\* except branch runs inside the semaphore); next is `async with upload_lock`.
ProgressSent(f, ok) ==
    /\ pg.pc = "running"
    /\ pg.w[f] = "sending"
    /\ pg' = [pg EXCEPT !.w[f] = IF ok THEN "ok_wait" ELSE "failed_wait"]
    /\ UNCHANGED <<lg, asm, pool, mf, dc, sp, rt, xfer, bot, first, batches, chunks, files, threads, index_channel, plain_posted, temp, op, workers, results, sync, dl, uc, ops>>

\* upload_chunk under upload_lock, up to `await update_archive_card` or, when
\* no edit is due, to the end of the block.
ProgressUpdate(f) ==
    /\ pg.pc = "running"
    /\ pg.w[f] \in {"ok_wait", "failed_wait"}
    /\ lock_free(pg.upload_lock)
    /\ LET ok == pg.w[f] = "ok_wait"
           completed_count == pg.completed_count + 1
           edit == may_edit(pg.clock, pg.last_edit, completed_count, pg.chunk_count)
       IN pg' = [pg EXCEPT
                   !.uploaded_files = IF ok THEN Append(@, f) ELSE @,
                   !.failed_files = IF ok THEN @ ELSE Append(@, f),
                   !.completed_count = completed_count,
                   !.now = pg.clock,
                   !.calls = IF edit THEN @ + 1 ELSE @,
                   !.upload_lock = IF edit THEN f ELSE 0,
                   !.w[f] = IF ~edit THEN "done"
                            ELSE IF ok THEN "ok_editing" ELSE "failed_editing"]
    /\ UNCHANGED <<lg, asm, pool, mf, dc, sp, rt, xfer, bot, first, batches, chunks, files, threads, index_channel, plain_posted, temp, op, workers, results, sync, dl, uc, ops>>

\* await update_archive_card(archive_message, metadata) returns, and then
\* last_edit = now, or raises, which is printed; the lock is left.
ProgressEdited(f, ok) ==
    /\ pg.pc = "running"
    /\ pg.w[f] \in {"ok_editing", "failed_editing"}
    /\ pg' = [pg EXCEPT
                !.w[f] = "done", !.upload_lock = 0,
                !.last_edit = IF ok THEN pg.now ELSE @,
                !.edits = IF ok THEN @ + 1 ELSE @,
                !.gap = IF ok /\ pg.edit_at >= 0 THEN pg.now - pg.edit_at ELSE @,
                !.edit_at = IF ok THEN pg.now ELSE @]
    /\ UNCHANGED <<lg, asm, pool, mf, dc, sp, rt, xfer, bot, first, batches, chunks, files, threads, index_channel, plain_posted, temp, op, workers, results, sync, dl, uc, ops>>

\* A tenth of a second passes while the tasks of the gather run.
ProgressTick ==
    /\ pg.pc = "running"
    /\ pg.clock < MaxClock
    /\ pg' = [pg EXCEPT !.clock = @ + 1]
    /\ UNCHANGED <<lg, asm, pool, mf, dc, sp, rt, xfer, bot, first, batches, chunks, files, threads, index_channel, plain_posted, temp, op, workers, results, sync, dl, uc, ops>>

\* await asyncio.gather(*tasks, return_exceptions=True) returns.
ProgressGathered ==
    /\ pg.pc = "running"
    /\ \A f \in CardChunks : pg.w[f] \in {"none", "done"}
    /\ pg' = [pg EXCEPT !.pc = "gathered"]
    /\ UNCHANGED <<lg, asm, pool, mf, dc, sp, rt, xfer, bot, first, batches, chunks, files, threads, index_channel, plain_posted, temp, op, workers, results, sync, dl, uc, ops>>

NextProgress ==
    \/ \E chunk_count \in CardChunks,
          boot \in {0, ARCHIVE_CARD_UPDATE_RATE_LIMIT + 1} :
             ProgressStart(chunk_count, boot)
    \/ \E f \in CardChunks : ProgressAcquire(f)
    \/ \E f \in CardChunks, ok \in BOOLEAN : ProgressSent(f, ok)
    \/ \E f \in CardChunks : ProgressUpdate(f)
    \/ \E f \in CardChunks, ok \in BOOLEAN : ProgressEdited(f, ok)
    \/ ProgressTick
    \/ ProgressGathered

SpecProgress == Init /\ [][NextProgress]_vars

\* ------------------------------------------------ the log file of the bot
\* lg.logs is the list in config.LOG_FILE, lg.cards the archive cards of the
\* archive channel, oldest first, each with the metadata it shows and whether
\* its thread exists.  lg.up[u] is the task of the u-th !upload command,
\* lg.resume the task of a !resume command with the list it loaded;
\* lg.cleaned are the cards a !cleanup marked deleted after it deleted the
\* thread, and whose log entry it removed.  The commands are tasks of one event loop
\* and interleave at their awaits.

\* build_archive_id(lot_num, timestamp): "#<DDMMYY>-<lot>", for the
\* timestamps of one day.
build_archive_id(lot_num) == <<"#DDMMYY", lot_num>>

\* FileSystemService.get_next_lot()
get_next_lot(logs) ==
    IF logs = <<>> THEN 1
    ELSE (CHOOSE m \in {logs[i].lot : i \in DOMAIN logs} :
             \A i \in DOMAIN logs : logs[i].lot <= m) + 1

\* append_log(entry): load_logs, append, write_logs.
append_log(logs, entry) == Append(logs, entry)

\* FileSystemService.find_log_index(logs, archive_id=...): 0 for None.
find_log_index(logs, archive_id) ==
    IF \E i \in DOMAIN logs : logs[i].archive_id = archive_id
    THEN CHOOSE i \in DOMAIN logs :
            /\ logs[i].archive_id = archive_id
            /\ \A j \in 1 .. (i - 1) : logs[j].archive_id # archive_id
    ELSE 0

\* resume without an archive id: for i in range(len(logs) - 1, -1, -1):
\* if logs[i].get("status") == "failed"; 0 for None.
last_failed(logs) ==
    IF \E i \in DOMAIN logs : logs[i].status = "failed"
    THEN CHOOSE i \in DOMAIN logs :
            /\ logs[i].status = "failed"
            /\ \A j \in (i + 1) .. Len(logs) : logs[j].status # "failed"
    ELSE 0

\* find_archive_card_by_id: the first card of archive_channel.history(), which
\* is newest first, with this archive id; 0 for None.
find_archive_card_by_id(cards, archive_id) ==
    IF \E c \in DOMAIN cards : cards[c].archive_id = archive_id
    THEN CHOOSE c \in DOMAIN cards :
            /\ cards[c].archive_id = archive_id
            /\ \A d \in (c + 1) .. Len(cards) : cards[d].archive_id # archive_id
    ELSE 0

\* collect_logs_from_archive_channel: the cards newest first; a card whose
\* archive id was seen updates the entry of that id, another adds an entry.
RECURSIVE collect_logs(_, _, _)
collect_logs(cards, c, rebuilt_logs) ==
    IF c = 0 THEN rebuilt_logs
    ELSE LET entry == [lot |-> cards[c].lot, archive_id |-> cards[c].archive_id,
                       status |-> cards[c].status]
             existing == find_log_index(rebuilt_logs, entry.archive_id)
         IN collect_logs(cards, c - 1,
                         IF existing # 0
                         THEN [rebuilt_logs EXCEPT ![existing] = entry]
                         ELSE Append(rebuilt_logs, entry))

\* !upload up to create_thread: get_next_lot, build_archive_id, the card
\* with status "partial", the thread (when it fails the command returns).
LogUploadStart(u, thread_ok) ==
    /\ lg.up[u].pc = "none"
    /\ \A v \in 1 .. (u - 1) : lg.up[v].pc # "none"
    /\ LET lot_num == get_next_lot(lg.logs)
           archive_id == build_archive_id(lot_num)
           card == [archive_id |-> archive_id, lot |-> lot_num,
                    status |-> "partial", thread |-> thread_ok]
       IN lg' = [lg EXCEPT
                   !.cards = Append(@, card),
                   !.up[u] = [pc |-> IF thread_ok THEN "uploading" ELSE "returned",
                              lot |-> lot_num, archive_id |-> archive_id,
                              card |-> Len(lg.cards) + 1]]
    /\ UNCHANGED <<pg, asm, pool, mf, dc, sp, rt, xfer, bot, first, batches, chunks, files, threads, index_channel, plain_posted, temp, op, workers, results, sync, dl, uc, ops>>

\* !upload after the gather: the status, update_archive_card (a failure is
\* printed), append_log(entry).
LogUploadEnd(u, status, edited) ==
    /\ lg.up[u].pc = "uploading"
    /\ LET entry == [lot |-> lg.up[u].lot, archive_id |-> lg.up[u].archive_id,
                     status |-> status]
       IN lg' = [lg EXCEPT
                   !.cards[lg.up[u].card].status = IF edited THEN status ELSE @,
                   !.logs = append_log(@, entry),
                   !.up[u].pc = "done"]
    /\ UNCHANGED <<pg, asm, pool, mf, dc, sp, rt, xfer, bot, first, batches, chunks, files, threads, index_channel, plain_posted, temp, op, workers, results, sync, dl, uc, ops>>

\* !resume up to its first await: load_logs and the target entry.
LogResumeStart(by_id, archive_id) ==
    /\ lg.resume.pc = "none"
    /\ lg.logs # <<>>
    /\ LET target_index == IF by_id THEN find_log_index(lg.logs, archive_id)
                           ELSE last_failed(lg.logs)
       IN /\ target_index # 0
          /\ lg' = [lg EXCEPT !.resume = [pc |-> "loaded", logs |-> lg.logs,
                                          target_index |-> target_index]]
    /\ UNCHANGED <<pg, asm, pool, mf, dc, sp, rt, xfer, bot, first, batches, chunks, files, threads, index_channel, plain_posted, temp, op, workers, results, sync, dl, uc, ops>>

\* !resume after the sends: entry["status"], logs[target_index] = entry,
\* persist_logs(logs), update_archive_card when the card was found.
LogResumeEnd(status, edited) ==
    /\ lg.resume.pc = "loaded"
    /\ LET logs == [lg.resume.logs EXCEPT ![lg.resume.target_index].status = status]
           c == find_archive_card_by_id(lg.cards,
                                        logs[lg.resume.target_index].archive_id)
       IN lg' = [lg EXCEPT
                   !.logs = logs,
                   !.cards = IF c # 0 /\ edited
                             THEN [@ EXCEPT ![c].status = status] ELSE @,
                   !.resume = NoResume]
    /\ UNCHANGED <<pg, asm, pool, mf, dc, sp, rt, xfer, bot, first, batches, chunks, files, threads, index_channel, plain_posted, temp, op, workers, results, sync, dl, uc, ops>>

\* !cleanup <archive_id>: the card, thread.delete() (when it fails the
\* command returns), status "deleted" on the card (a failure is printed),
\* the entries of the archive id filtered out of the log.
LogCleanup(archive_id, thread_ok, edited) ==
    /\ LET c == find_archive_card_by_id(lg.cards, archive_id)
       IN /\ c # 0
          /\ thread_ok => lg.cards[c].thread
          /\ lg' = IF ~thread_ok THEN lg
                   ELSE [lg EXCEPT
                           !.cards[c].thread = FALSE,
                           !.cards[c].status = IF edited THEN "deleted" ELSE @,
                           !.logs = SelectSeq(@, LAMBDA e : e.archive_id # archive_id),
                           !.cleaned = IF edited /\ find_log_index(lg.logs, archive_id) # 0
                                       THEN @ \cup {c} ELSE @]
          /\ thread_ok
    /\ UNCHANGED <<pg, asm, pool, mf, dc, sp, rt, xfer, bot, first, batches, chunks, files, threads, index_channel, plain_posted, temp, op, workers, results, sync, dl, uc, ops>>

\* on_ready: rebuild_log_from_archive_channel writes the collected entries
\* unless there is none; !rebuild-log confirm writes them.
LogRebuild(command) ==
    /\ lg.cards # <<>>
    /\ LET rebuilt_logs == collect_logs(lg.cards, Len(lg.cards), <<>>)
       IN /\ command \/ rebuilt_logs # <<>>
          /\ lg.logs # rebuilt_logs
          /\ lg' = [lg EXCEPT !.logs = rebuilt_logs]
    /\ UNCHANGED <<pg, asm, pool, mf, dc, sp, rt, xfer, bot, first, batches, chunks, files, threads, index_channel, plain_posted, temp, op, workers, results, sync, dl, uc, ops>>

ArchiveIds == {build_archive_id(lot) : lot \in 1 .. MaxUploads}

NextLog ==
    \/ \E u \in Uploads, thread_ok \in BOOLEAN : LogUploadStart(u, thread_ok)
    \/ \E u \in Uploads, status \in {"success", "failed"},
          edited \in BOOLEAN : LogUploadEnd(u, status, edited)
    \/ \E by_id \in BOOLEAN, archive_id \in ArchiveIds :
          LogResumeStart(by_id, archive_id)
    \/ \E status \in {"success", "failed"}, edited \in BOOLEAN :
          LogResumeEnd(status, edited)
    \/ \E archive_id \in ArchiveIds, thread_ok \in BOOLEAN, edited \in BOOLEAN :
          LogCleanup(archive_id, thread_ok, edited)
    \/ \E command \in BOOLEAN : LogRebuild(command)

SpecLog == Init /\ [][NextLog]_vars

\* ------------------------------------------------------------- properties
\* The part indexes with at least one attachment in thread t.
Stored(t) == {i \in Indexes : threads[t].att[i] > 0}

RowIndexes(b) == {r.chunk_index : r \in get_chunks(b)}

BatchRow(b) == CHOOSE r \in get_batch(b) : TRUE

\* Sanity: primary keys are unique and a batch has one row per chunk index.
KeysUnique ==
    /\ \A r1, r2 \in batches : r1.batch_id = r2.batch_id => r1 = r2
    /\ \A c1, c2 \in chunks : c1.chunk_id = c2.chunk_id => c1 = c2
    /\ \A c1, c2 \in chunks :
          (c1.batch_id = c2.batch_id /\ c1.chunk_index = c2.chunk_index) => c1 = c2

\* C1: when upload() stored chunks 0..k and failed on the others,
\* resume_upload sends exactly the chunks that are not yet in the thread, and
\* a resume that succeeds leaves one complete row per index 0..N-1.
C1_ResumeSendsExactlyFailed ==
    /\ (/\ op.kind = "resume" /\ op.pc = "thread"
        /\ BatchRow(op.batch).status = "failed"
        /\ Stored(op.thread) # {}
        /\ Stored(op.thread) # 0 .. (temp[op.batch] - 1))
       => Remaining(op.batch) = (0 .. (temp[op.batch] - 1)) \ Stored(op.thread)
    /\ (/\ op.kind = "resume" /\ op.pc = "closing"
        /\ BatchRow(op.batch).status = "complete")
       => /\ RowIndexes(op.batch) = 0 .. (BatchRow(op.batch).chunk_count - 1)
          /\ Cardinality(get_chunks(op.batch)) = BatchRow(op.batch).chunk_count

\* C2: once an upload or resume has failed or been abandoned, every chunk
\* stored in the batch's thread has a chunk row in the local index.
C2_StoredChunksHaveRows ==
    \A r \in batches :
        (op = Idle /\ r.status \in {"uploading", "failed"})
        => \A i \in Stored(r.thread_id) : i \in RowIndexes(r.batch_id)

\* C3: between commands, a batch with status complete has exactly
\* chunk_count chunk rows, indexed 0..chunk_count-1, each naming an
\* attachment that exists in the remote thread.
C3_CompleteBatchHasAllChunks ==
    \A r \in batches :
        (op = Idle /\ r.status = "complete")
        => /\ RowIndexes(r.batch_id) = 0 .. (r.chunk_count - 1)
           /\ Cardinality(get_chunks(r.batch_id)) = r.chunk_count
           /\ \A c \in get_chunks(r.batch_id) : Retrievable(c.discord_attachment_url)

\* C4: download() of a batch with a chunk index absent never merges the
\* chunks it has and restores nothing: it stops with an error before merge_chunks.
C4_MissingChunkNeverMerged ==
    (/\ op.kind = "download"
     /\ RowIndexes(op.batch) # 0 .. (BatchRow(op.batch).chunk_count - 1))
    => /\ op.pc \in {"fetch", "verify", "merge", "raised"}
       /\ dl.merged = <<>>
       /\ dl.restored = "none"

\* C5: when a downloaded chunk's SHA-256 differs from the file_hash of its
\* row, download() raises before anything is merged, decrypted or extracted.
C5_HashMismatchStopsDownload ==
    (/\ op.kind = "download"
     /\ \E k \in 1 .. Len(dl.fetched) :
           Sha256(dl.fetched[k]) # ChunkRows(op.batch)[k].file_hash)
    => /\ op.pc \in {"verify", "raised"}
       /\ op.pc = "raised" => dl.error = "Chunk integrity check failed"
       /\ dl.merged = <<>>
       /\ dl.restored = "none"

C5_Witness ==
    /\ op.kind = "download" /\ op.pc = "raised"
    /\ \E k \in 1 .. Len(dl.fetched) :
          /\ dl.fetched[k] = Corrupt(op.batch, k - 1)
          /\ ChunkRows(op.batch)[k].file_hash = Sha256(Data(op.batch, k - 1))

\* C6: upload_chunk reports a chunk failed only after `retries` sends failed
\* with an HTTP error; rate-limit responses do not use up the attempts.
C6_RateLimitKeepsRetryBudget ==
    (uc.st = "failed" /\ ~uc.unexpected) => uc.http = Retries

\* C7: once a sync that started from an empty index has passed the card
\* upload() posted for a batch whose thread holds chunks, the index has the
\* batch row (same batch_id and thread_id) and a chunk row per stored chunk.
C7_CardRebuildsBatch ==
    (op.kind = "sync" /\ op.pc = "scan" /\ sync.reset)
    => \A k \in 1 .. Len(index_channel) :
          LET card == index_channel[k]
          IN (/\ k < sync.pos
              /\ card.mid.kind = "card"
              /\ threads[card.thread_id].state = "live"
              /\ Stored(card.thread_id) # {})
             => /\ \E r \in get_batch(card.batch_id) : r.thread_id = card.thread_id
                /\ Stored(card.thread_id) \subseteq RowIndexes(card.batch_id)

\* C8: the file_hash of every chunk row is the SHA-256 of the bytes its
\* attachment locator serves.
C8_RowHashMatchesAttachment ==
    \A c \in chunks :
        Retrievable(c.discord_attachment_url)
        => c.file_hash = Sha256(Data(c.discord_attachment_url.thread,
                                      c.discord_attachment_url.index))

\* The positions of the cards sync_from_discord reads batch b from.
CardsOf(b) ==
    {k \in 1 .. Len(index_channel) :
        /\ index_channel[k].batch_id = b
        /\ BATCH_ID_RE(index_channel[k])
        /\ THREAD_ID_RE(index_channel[k])}

Max(S) == CHOOSE x \in S : \A y \in S : x >= y

\* C9: when a sync from an empty index has walked a history with several
\* cards for one batch id, the batch row holds the data of the latest card.
C9_LatestCardWins ==
    (op.kind = "sync" /\ op.pc = "scan" /\ sync.reset /\ sync.pos > Len(index_channel))
    => \A r \in batches :
          Cardinality(CardsOf(r.batch_id)) > 1
          => LET last == index_channel[Max(CardsOf(r.batch_id))]
             IN r.archive_message_id = last.mid /\ r.thread_id = last.thread_id

\* A step of a sync_from_discord run, and whether the run asked for a reset.
SyncStep == op.kind = "sync" \/ op'.kind = "sync"

SyncStepResets == IF op.kind = "sync" THEN sync.reset ELSE sync'.reset

\* C10: no step of a sync without reset removes or changes a batch, chunk or
\* file row; a sync with reset starts from empty tables.
C10_SyncWithoutResetKeepsRows ==
    [][/\ (SyncStep /\ ~SyncStepResets)
          => (batches \subseteq batches' /\ chunks \subseteq chunks'
              /\ files \subseteq files')
       /\ (op = Idle /\ op'.kind = "sync" /\ sync'.reset)
          => (batches' = {} /\ chunks' = {} /\ files' = {})]_vars

C10_Witness ==
    /\ op.kind = "sync" /\ op.pc = "chunks" /\ ~sync.reset
    /\ \E r \in batches : r.batch_id # sync.batch
    /\ files # {}
    /\ \E c \in chunks : c.batch_id = sync.batch


\* The errors sync_from_discord ends with when the index channel or a
\* batch's thread cannot be reached.
UnreachableErrors == {"Batch index channel not found.", "NotFound"}

\* C11: a synchronization that cannot reach the index channel or a batch's
\* thread does not end with an error (it carries on with the local copy).
C11_UnreachableDoesNotAbort ==
    ~(op.kind = "sync" /\ op.pc = "raised" /\ sync.error \in UnreachableErrors)


\* C12: a second rebuild of the index from the same remote history ends with
\* the batch rows and chunk rows the first rebuild ended with.
C12_RebuildTwiceSameRows ==
    (first.taken /\ SyncEnded /\ sync.reset)
    => (batches = first.batches /\ chunks = first.chunks)

C12_Witness ==
    /\ first.taken /\ SyncEnded /\ sync.reset /\ ops = 2
    /\ Cardinality(batches) = 2
    /\ chunks # {}


\* C13: when the bot's upload has gathered its chunk tasks, the status it
\* records is "success" iff no chunk failed, "partial" iff some failed and
\* some were stored in the thread, "failed" iff none was stored.
C13_FinalStatusOfUpload ==
    bot.pc = "finishing"
    => LET stored == bot.card.files \cap bot.posts
           failed == bot.card.files \ bot.posts
       IN /\ bot.run.status = "success" <=> failed = {}
          /\ bot.run.status = "partial" <=> (failed # {} /\ stored # {})
          /\ bot.run.status = "failed" <=> stored = {}

C13_Witness ==
    /\ bot.pc = "finishing"
    /\ bot.run.status = "partial"
    /\ bot.posts # {}

\* C14: the status a resume records is "success" exactly when every chunk of
\* the archive has been stored by the upload or by some resume.
C14_ResumeStatusFromUnion ==
    bot.pc = "resumed"
    => (bot.run.status = "success"
        <=> bot.entry.files \subseteq (bot.posts \cup bot.channel_posts))


\* C15: every file a resume sends is recorded as failed for the archive, is
\* a file of that archive, and is not among its uploaded files.
C15_ResumeSendsOnlyFailedFiles ==
    bot.pc = "resuming"
    => \A f \in bot.run.todo :
          /\ f \in bot.entry.failed_files
          /\ f \in bot.entry.files
          /\ f \notin bot.entry.uploaded_files

\* C16: a resume posts its chunks into the archive's thread (the existing
\* one, or one it creates) and into no other channel.
C16_ResumePostsIntoThread ==
    /\ bot.pc = "resuming" => bot.run.target = "thread"
    /\ bot.channel_posts = {}

\* C17: a download of an archive to a destination it was downloaded to before
\* fetches nothing again: every chunk the run meets that an earlier run saved
\* there is reported as skipped, none is saved or attempted a second time.
C17_SecondDownloadSkipsAll ==
    bot.pc = "downloaded"
    => \A f \in bot.saved_before :
          f \in (bot.fetch.success \cup bot.fetch.failed \cup bot.fetch.skipped)
          => f \in bot.fetch.skipped

\* C18: at no time are more chunk transfers of one batch in flight than the
\* semaphore's value: the uploads and the downloads of the CLI
\* (max_concurrency) and the uploads of the bot (MAX_CONCURRENT_UPLOADS).
C18_TransfersInFlightBounded ==
    /\ Cardinality(Holding) <= xfer.max_concurrency
    /\ Cardinality(bot.run.flying) <= BotConcurrentUploads

\* A download with as many chunks in flight as allowed and one more waiting.
C18_Witness ==
    /\ xfer.phase = "download"
    /\ Cardinality(Holding) = xfer.max_concurrency
    /\ Waiting # {}

\* C19: whatever the order in which the uploads and the downloads of the
\* chunks complete, each chunk is recorded under its own index and the merged
\* file is the chunks in ascending index order.
C19_MergeIgnoresCompletionOrder ==
    /\ \A r \in xfer.rows : /\ r.stored = Part(r.chunk_index)
                             /\ r.file_hash = Sha256(Part(r.chunk_index))
    /\ xfer.phase = "done" => xfer.merged = [k \in 1 .. xfer.n |-> Part(k - 1)]
    /\ xfer.phase = "recorded" \/ xfer.phase = "download" \/ xfer.phase = "done"
          => xfer.error = ""

\* A merged download whose uploads and downloads both completed out of order.
C19_Witness ==
    /\ xfer.phase = "done"
    /\ xfer.n = MaxParts
    /\ xfer.uploaded # sorted_by_chunk_index(xfer.uploaded)
    /\ xfer.results # sorted_by_chunk_index(xfer.results)
    /\ xfer.uploaded # xfer.results

\* C20: for any byte sequence, the empty one and those longer than a chunk
\* included, slicing or preparing it for upload and then restoring it gives
\* back the original bytes exactly, and no step of the way fails.
C20_RoundTripRestoresBytes ==
    /\ rt.error = ""
    /\ rt.stage = "restored" => rt.restored = rt.original

\* C21: no chunk file that split_file or slice_folder writes is larger than
\* the cap, whatever chunk size was asked for, and a chunk size above the cap
\* is answered with a warning.
C21_ChunksWithinCap ==
    sp.pc = "done"
    => /\ \A k \in 1 .. Len(sp.sizes) : sp.sizes[k] <= MAX_CHUNK_SIZE_CAP
       /\ sp.chunk_size > MAX_CHUNK_SIZE_CAP => sp.warned

\* C22: a zero-byte file is split into exactly one chunk, made of zero bytes.
C22_EmptyInputOneChunk ==
    sp.pc = "done" /\ sp.total = 0 => sp.reads = <<0>>

\* C23: a wrong key, a tampered ciphertext and a truncated input are each
\* reported, and no two of them with the same error.
C23_ThreeFailuresThreeErrors ==
    \A c1, c2 \in {"wrong key", "tampered", "truncated"} :
       c1 # c2 /\ dc.outcome[c1].pc = "done" /\ dc.outcome[c2].pc = "done"
       => /\ dc.outcome[c1].error # ""
          /\ dc.outcome[c1].error # dc.outcome[c2].error

\* C24: decrypt_file and decrypt_chunk under a key other than the one that
\* encrypted raise an EncryptionError and leave no decrypted bytes.
C24_WrongKeyRaises ==
    dc.kind \in {"decrypt_file", "decrypt_chunk"} /\ dc.outcome["wrong key"].pc = "done"
    => /\ dc.outcome["wrong key"].error # ""
       /\ dc.outcome["wrong key"].bytes = <<>>

FileRows(b) == {r \in files : r.batch_id = b}

\* C25: a step that deletes the batch row of b deletes every chunk row and
\* every file row of b with it, and changes no row of another batch.
C25_DeleteBatchTakesItsRows ==
    [][\A b \in BatchIds :
          (get_batch(b) # {} /\ get_batch(b)' = {})
          => /\ batches' = batches \ get_batch(b)
             /\ chunks' = chunks \ get_chunks(b)
             /\ files' = files \ FileRows(b)]_vars

\* b1 was deleted with chunk and file rows of its own, next to b2 which
\* keeps rows in all three tables.
C25_Witness ==
    /\ ops > 0 /\ op = Idle
    /\ threads["b1"].state # "none" /\ Len(index_channel) > 0
    /\ get_batch("b1") = {} /\ get_chunks("b1") = {} /\ FileRows("b1") = {}
    /\ get_batch("b2") # {} /\ Cardinality(get_chunks("b2")) = MaxChunks
    /\ FileRows("b2") # {}

\* C26: a delete that removes the remote thread and card and meets nothing
\* but NotFound on the way goes on to delete_batch, which removes the batch
\* row and the chunk rows.
C26_NotFoundIsNotAnError ==
    [][/\ \A b \in BatchIds :
             DeleteFromDiscord(b, TRUE, "ok") => op'.kind = "delete" /\ op'.batch = b
       /\ (op.kind = "delete" /\ op' # op)
          => get_batch(op.batch)' = {} /\ get_chunks(op.batch)' = {}]_vars

\* The thread and the card of b1 were both gone, the remote half passed over
\* NotFound, and b1's rows are about to be deleted.
C26_Witness ==
    /\ op.kind = "delete" /\ op.batch = "b1"
    /\ op.pc = "delete_batch, NotFound passed"
    /\ get_chunks("b1") # {}
    /\ threads["b1"].state = "deleted"
    /\ ~CardPosted(BatchRow("b1"))

\* C27: when recording a batch stops on a DatabaseError, the batch row and
\* every chunk row of the batch are stored, or no row of the batch is.
C27_NoPartialCommit ==
    (op.kind = "sync" /\ op.pc = "raised" /\ sync.error = "DatabaseError"
        /\ sync.batch # "")
    => \/ get_batch(sync.batch) = {} /\ get_chunks(sync.batch) = {}
       \/ /\ get_batch(sync.batch) # {}
          /\ Cardinality(get_chunks(sync.batch))
                = Len(collect_thread_data(sync.thread))

\* C28: no more than maxsize connections are open at any time; a thread is
\* inside the blocking queue.get only while the pool is at its maximum, for
\* no longer than the timeout, and no thread has waited longer than that
\* timeout once for each calling thread.
C28_PoolNeverExceedsMax ==
    /\ pool.open <= maxsize
    /\ Cardinality(InUse) + pool.queue <= pool.open
    /\ \A c \in Callers :
          /\ pool.pc[c] = "get"
             => pool.active_count = maxsize /\ pool.get_waited <= GetTimeout
          /\ pool.waited[c] <= MaxCallers * GetTimeout

\* All maxsize connections are in use, one more thread has been inside
\* queue.get for some time and another waits behind it.
C28_Witness ==
    /\ Cardinality(InUse) = maxsize /\ pool.open = maxsize
    /\ \E c, d \in Callers :
          /\ pool.pc[c] = "get" /\ pool.waited[c] > 0
          /\ pool.pc[d] = "count_lock" /\ pool.waited[d] > 0

\* C29: in upload(), the step that stores the batch row stores it with status
\* "uploading" while the thread holds no chunk, and every step that sends a
\* chunk to the thread finds the batch row stored.
C29_BatchRowBeforeChunks ==
    [][op.kind = "upload"
       => /\ (get_batch(op.batch) = {} /\ get_batch(op.batch)' # {})
             => /\ \A r \in get_batch(op.batch)' : r.status = "uploading"
                /\ \A i \in Indexes : threads[op.thread].att[i] = 0
          /\ (\E i \in Indexes :
                 threads'[op.thread].att[i] > threads[op.thread].att[i])
             => get_batch(op.batch) # {}]_vars

\* upload() of b1 has its batch row, still "uploading", and a chunk in the
\* thread.
C29_Witness ==
    /\ op.kind = "upload" /\ op.batch = "b1"
    /\ get_batch("b1") # {} /\ BatchRow("b1").status = "uploading"
    /\ \E i \in Indexes : threads["b1"].att[i] > 0

\* C30: a save_manifest leaves every file of the output directory in place
\* with its content and adds one file under a name that was free; when the
\* name built from the chunk count and the time was taken, the new name is
\* that name with a numeric suffix.
C30_SaveManifestNeverOverwrites ==
    [][mf'.saves > mf.saves
       => /\ mf.dir \subseteq mf'.dir
          /\ mf'.dir \ mf.dir = {[name |-> mf'.path, content |-> mf'.saves]}
          /\ ~ \E f \in mf.dir : f.name = mf'.path
          /\ LET base == build_manifest_name(mf'.total_chunks, mf'.now)
             IN /\ mf'.path = suffixed_name(base, mf'.path.suffix)
                /\ (\E f \in mf.dir : f.name = base) <=> mf'.path.suffix >= 1]_vars

\* A manifest was saved under the suffix 2, next to an earlier manifest under
\* the plain name and one under the suffix 1, both of another call.
C30_Witness ==
    /\ mf.saves >= 2
    /\ mf.path.suffix = 2
    /\ \E f, g \in mf.dir :
          /\ f.name = suffixed_name(mf.path, 0) /\ f.content # mf.saves
          /\ g.name = suffixed_name(mf.path, 1) /\ g.content # mf.saves
          /\ g.content > 0

\* C31: when two manifests of the folder restore the same file of the same
\* output directory and everything was restored, the file holds what the
\* more recently modified manifest describes.
C31_NewestManifestWins ==
    (asm.pc = "done" /\ asm.todo = <<>> /\ ~asm.failed)
    => \A m1, m2 \in asm.manifests :
          (/\ m1.mtime > m2.mtime
           /\ m1.source_folder # "" /\ m1.source_folder = m2.source_folder)
          => \E f \in asm.output :
                /\ f.path = [dir |-> <<"base", m1.source_folder>>, name |-> "f"]
                /\ f.bytes = Described(m1)

\* C39: the chunks folder is removed only when no file failed and every
\* restored file has the size its manifest records.
C39_FolderRemovedOnlyWhenComplete ==
    (asm.pc = "done" /\ ~asm.folder) => ~asm.failed /\ ~asm.mismatch

\* C38: once upload() has caught the failure of a chunk and recorded the
\* batch as failed, no step adds an attachment to the thread of the batch:
\* the workers that were pending or in flight do not send their chunks.
C38_NoChunkSentAfterFailure ==
    [][(/\ op.kind = "upload" /\ op.pc = "closing"
        /\ \E i \in Indexes : workers[i] = "failed"
        /\ \E r \in get_batch(op.batch) : r.status = "failed")
       => threads'[op.thread].att = threads[op.thread].att]_vars

\* C40: whenever no thread is between counting a connection and creating
\* it, the active count of the pool is the number of connections that exist.
C40_ActiveCountIsOpenConnections ==
    (\A c \in Callers : pool.pc[c] # "create") => pool.active_count = pool.open

\* C34: while the log entry of the last upload has status "partial" and files
\* of its failed_files are still in the upload folder, the resume command
\* given no archive id selects it and resumes.
C34_PartialIsResumable ==
    (/\ bot.pc = "idle" /\ bot.commands < MaxBotCommands
     /\ bot.entry # NoEntry /\ bot.entry.status = "partial"
     /\ bot.entry.failed_files \cap bot.folder # {})
    => ENABLED BotResumeStart(FALSE, TRUE, TRUE)

C33_ProgressConsistent ==
    [][/\ (<<pg.uploaded_files, pg.failed_files, pg.completed_count>>' #
             <<pg.uploaded_files, pg.failed_files, pg.completed_count>>
           /\ pg.pc = "running")
          => pg.upload_lock = 0
       /\ pg.completed_count' = Len(pg.uploaded_files') + Len(pg.failed_files')
       /\ LET names == pg.uploaded_files' \o pg.failed_files'
          IN \A i, j \in DOMAIN names : i # j => names[i] # names[j]
       /\ pg.pc' = "gathered" => pg.completed_count' = pg.chunk_count']_vars

\* Two tasks have sent their chunks, one failing: the first holds the lock
\* inside update_archive_card while the second waits for it.
C33_Witness ==
    /\ pg.pc = "running"
    /\ \E f, g \in CardChunks :
          /\ pg.w[f] = "ok_editing" /\ pg.upload_lock = f
          /\ pg.w[g] = "failed_wait"

\* C35: no two upload commands get the same lot number, and so none the
\* same archive id.
C35_LotsUnique ==
    \A u, v \in Uploads :
       (u # v /\ lg.up[u].pc # "none" /\ lg.up[v].pc # "none")
       => /\ lg.up[u].lot # lg.up[v].lot
          /\ lg.up[u].archive_id # lg.up[v].archive_id

\* C36: the step in which a resume writes the log back leaves in the log,
\* as it was, every entry that a finished upload of another archive appended.
C36_ResumeKeepsEntries ==
    [][(lg.resume.pc = "loaded" /\ lg.resume.pc' = "none")
       => \A i \in DOMAIN lg.logs :
             (/\ lg.logs[i].archive_id
                    # lg.resume.logs[lg.resume.target_index].archive_id
              /\ \E u \in Uploads : /\ lg.up[u].pc = "done"
                                    /\ lg.up[u].archive_id = lg.logs[i].archive_id)
             => \E j \in DOMAIN lg.logs' : lg.logs'[j] = lg.logs[i]]_vars

\* C37: the log holds no entry made from a card that a cleanup marked
\* deleted after it deleted the thread and removed the log entry.
C37_CleanedArchiveStaysOut ==
    \A c \in lg.cleaned :
       ~\E i \in DOMAIN lg.logs :
           /\ lg.logs[i].archive_id = lg.cards[c].archive_id
           /\ lg.logs[i].status = "deleted"
====
